---- MODULE Spec2Model ----
(***************************************************************************)
(* A model of dp/generate_climos.py: create_climo_files and the functions  *)
(* it calls.  One run of create_climo_files is a behaviour: the input file *)
(* and the call's arguments are fixed by Init, and each action is one step *)
(* of the function body, in source order.  External-tool (cdo) calls are   *)
(* recorded in cdo_log; every temporary file a cdo call returns is a       *)
(* record in tmp; in-place edits of files are recorded in edits.           *)
(***************************************************************************)
EXTENDS Integers, Sequences, FiniteSets, TLC

\* ------------------------------------------------------------------------
\* Generic helpers (Python list / dict / set idioms)
\* ------------------------------------------------------------------------

Range(s) == {s[i] : i \in 1..Len(s)}

\* Sequences of at most n distinct elements of S
InjectiveSeqs(S, n) ==
    UNION {{s \in [1..k -> S] : \A i, j \in 1..k : i # j => s[i] # s[j]} :
           k \in 0..(IF n < Cardinality(S) THEN n ELSE Cardinality(S))}

\* The orders in which a set of these elements can iterate
Orderings(S) == {q \in InjectiveSeqs(S, Cardinality(S)) : Range(q) = S}

RECURSIVE SumSeq(_)
SumSeq(s) == IF s = <<>> THEN 0 ELSE Head(s) + SumSeq(Tail(s))

RECURSIVE Flatten(_)
Flatten(ss) == IF ss = <<>> THEN <<>> ELSE Head(ss) \o Flatten(Tail(ss))

\* "key in d" and d[key] for a dict modelled as a function
HasKey(d, k) == k \in DOMAIN d

EmptyDict == [k \in {} |-> ""]

\* ------------------------------------------------------------------------
\* Domain vocabulary
\* ------------------------------------------------------------------------

Resolutions == {"daily", "monthly", "seasonal", "yearly"}

timeres_ordinality == [daily |-> 1, monthly |-> 2, seasonal |-> 3, yearly |-> 4]

Categories == {"point", "count", "maximum", "minimum", "duration"}

supported_operations == {"mean", "std"}

variable_types ==
    [tasmin |-> "point", tasmax |-> "point", pr |-> "point",
     BASEFLOW |-> "point", EVAP |-> "point", GLAC_AREA_BAND |-> "point",
     GLAC_MBAL_BAND |-> "point", GLAC_OUTFLOW |-> "point",
     PET_NATVEG |-> "point", PREC |-> "point", RAINF |-> "point",
     RUNOFF |-> "point", SNOW_MELT |-> "point", SOIL_MOIST_TOT |-> "point",
     SWE |-> "point", SWE_BAND |-> "point", TRANSP_VEG |-> "point",
     streamflow |-> "point",
     cddETCCDI |-> "duration", csdiETCCDI |-> "duration",
     cwdETCCDI |-> "duration", dtrETCCDI |-> "point", fdETCCDI |-> "count",
     gslETCCDI |-> "duration", idETCCDI |-> "count",
     prcptotETCCDI |-> "count", r10mmETCCDI |-> "count",
     r1mmETCCDI |-> "count", r20mmETCCDI |-> "count", r95pETCCDI |-> "count",
     r99pETCCDI |-> "count", rx1dayETCCDI |-> "maximum",
     rx5dayETCCDI |-> "maximum", sdiiETCCDI |-> "point", suETCCDI |-> "count",
     tn10pETCCDI |-> "point", tn90pETCCDI |-> "point",
     tnnETCCDI |-> "minimum", tnxETCCDI |-> "maximum", trETCCDI |-> "count",
     tx10pETCCDI |-> "point", tx90pETCCDI |-> "point",
     txnETCCDI |-> "minimum", txxETCCDI |-> "maximum",
     wsdiETCCDI |-> "duration",
     cdd |-> "count", fdd |-> "count", gdd |-> "count", hdd |-> "count",
     prsn |-> "point"]

\* ------------------------------------------------------------------------
\* Inputs explored
\* ------------------------------------------------------------------------

\* Largest number of dependent variables in an input file
MaxVars == 2

\* Largest number of resolutions in the requested collection
MaxRequested == 3

\* Variable names an input file may hold: one or two of each category and two
\* names that are not in variable_types
VarPool == {"tasmax", "pr", "prcptotETCCDI", "rx1dayETCCDI", "tnnETCCDI",
            "wsdiETCCDI", "foo", "bar"}

\* Units and packing of a flux variable (pr, prsn) of the input file
FluxKinds == {"per_day", "per_second", "per_second_packed"}

flux_names == <<"pr", "prsn">>

\* Operations a caller may pass ("median" stands for any unsupported one)
OperationInputs == {"mean", "std", "median"}

\* History lines of the input file, newest first
InputHistory == <<"orig1", "orig2">>

\* ------------------------------------------------------------------------
\* Pure parts of create_climo_files
\* ------------------------------------------------------------------------

\* validate_operation: TRUE iff no exception is raised
validate_operation(op) == op \in supported_operations

\* Mutant of unsupported_variables: the names reported last first
unsupported_variables_reversed(varnames) ==
    LET bad == SelectSeq(varnames, LAMBDA v : v \notin DOMAIN variable_types)
    IN  [i \in 1..Len(bad) |-> bad[Len(bad) + 1 - i]]

\* The names whose lookup in variable_types raises KeyError, in file order;
\* the set comprehension stops at the first of them.
unsupported_variables(varnames) ==
    SelectSeq(varnames, LAMBDA v : v \notin DOMAIN variable_types)

\* var_types = {variable_types[variable] for variable in dependent_varnames()}
var_types_of(varnames) == {variable_types[v] : v \in Range(varnames)}

\* Mutant of one_type_only: an off-by-one that lets several types through
one_type_at_least(types) == Cardinality(types) >= 1

\* "if not len(var_types) == 1: raise": TRUE iff the file is accepted
one_type_only(types) == Cardinality(types) = 1

\* Mutant of climo_ops: a seasonal dataset also offered a monthly climatology
climo_ops_finer(operation) ==
    [daily    |-> EmptyDict,
     monthly  |-> [monthly  |-> <<"ymon", operation>>],
     seasonal |-> [monthly  |-> <<"ymon", operation>>,
                   seasonal |-> <<"yseas", operation>>],
     yearly   |-> [yearly   |-> <<"tim", operation>>]]

\* climo_outputs: the two operator tables.  A cdo operator name such as
\* "ymon" + operation is the pair <<"ymon", operation>>.
climo_ops(operation) ==
    [daily    |-> EmptyDict,
     monthly  |-> [monthly  |-> <<"ymon", operation>>],
     seasonal |-> [seasonal |-> <<"yseas", operation>>],
     yearly   |-> [yearly   |-> <<"tim", operation>>]]

aggregate_climo_ops(operation) ==
    [daily    |-> [monthly  |-> <<"ymon", operation>>,
                   seasonal |-> <<"yseas", operation>>,
                   yearly   |-> <<"tim", operation>>],
     monthly  |-> [seasonal |-> <<"yseas", operation>>,
                   yearly   |-> <<"tim", operation>>],
     seasonal |-> [yearly   |-> <<"tim", operation>>],
     yearly   |-> EmptyDict]

\* Mutant of available_operations: the update with the aggregate table left out
available_operations_exact(time_resolution, operation, aggregate) ==
    climo_ops(operation)[time_resolution]

\* operations = climo_ops[time_resolution]; operations.update(...) if aggregate
available_operations(time_resolution, operation, aggregate) ==
    IF aggregate
    THEN aggregate_climo_ops(operation)[time_resolution]
             @@ climo_ops(operation)[time_resolution]
    ELSE climo_ops(operation)[time_resolution]

\* [operations[rez] for rez in output_resolutions if rez in operations]
filter_operations(operations, output_resolutions) ==
    LET sel == SelectSeq(output_resolutions, LAMBDA rez : HasKey(operations, rez))
    IN  [i \in 1..Len(sel) |-> operations[sel[i]]]

\* "if time_resolution == 'daily' and not aggregate: raise"
rejects_daily(time_resolution, aggregate) ==
    time_resolution = "daily" /\ ~aggregate

\* Mutant of climo_outputs: an empty selection raised instead of warned about
climo_outputs_strict(time_resolution, operation, aggregate, output_resolutions) ==
    LET operations ==
            filter_operations(
                available_operations(time_resolution, operation, aggregate),
                output_resolutions)
    IN  IF rejects_daily(time_resolution, aggregate) \/ operations = <<>>
        THEN [error |-> "None of the selected output resolutions",
              warned |-> FALSE, ops |-> <<>>]
        ELSE [error |-> "none", warned |-> FALSE, ops |-> operations]

\* climo_outputs without the cdo calls: the exception raised (or "none"),
\* whether the warning is issued, and the cdo operators to apply to data.
climo_outputs(time_resolution, operation, aggregate, output_resolutions) ==
    IF rejects_daily(time_resolution, aggregate)
    THEN [error |-> "Cannot generate non-aggregated climatologies from a daily dataset",
          warned |-> FALSE, ops |-> <<>>]
    ELSE LET operations ==
                 filter_operations(
                     available_operations(time_resolution, operation, aggregate),
                     output_resolutions)
         IN  IF operations = <<>>
             THEN [error |-> "none", warned |-> TRUE, ops |-> <<>>]
             ELSE [error |-> "none", warned |-> FALSE, ops |-> operations]

\* Mutant of aggregator: the combining step made with the climatological mean
aggregator_mean(var_type) == "mean"

\* generate_aggregates: aggregator = {"count": "sum", ...}[var_type]
aggregator(var_type) ==
    CASE var_type = "count"   -> "sum"
      [] var_type = "maximum" -> "max"
      [] var_type = "minimum" -> "min"

\* The "data" entry: the dataset passed in, no cdo call
NoOp == <<"", "">>

\* Mutant of generate_aggregates: only the yearly aggregate is made
generate_aggregates_yearly(time_resolution, var_type) ==
    (IF time_resolution # "daily"
        THEN <<[res |-> time_resolution, op |-> NoOp]>> ELSE <<>>)
    \o (IF time_resolution \in {"daily", "monthly", "seasonal"}
        THEN <<[res |-> "yearly", op |-> <<"year", aggregator(var_type)>>]>> ELSE <<>>)

\* generate_aggregates: the entries of the aggregations dict in insertion
\* order; op is the cdo operator that makes the entry from data (NoOp: data).
generate_aggregates(time_resolution, var_type) ==
    (IF time_resolution # "daily"
        THEN <<[res |-> time_resolution, op |-> NoOp]>> ELSE <<>>)
    \o (IF time_resolution \in {"daily", "monthly", "seasonal"}
        THEN <<[res |-> "yearly", op |-> <<"year", aggregator(var_type)>>]>> ELSE <<>>)
    \o (IF time_resolution \in {"daily", "monthly"}
        THEN <<[res |-> "seasonal", op |-> <<"seas", aggregator(var_type)>>]>> ELSE <<>>)
    \o (IF time_resolution = "daily"
        THEN <<[res |-> "monthly", op |-> <<"mon", aggregator(var_type)>>]>> ELSE <<>>)

\* ------------------------------------------------------------------------
\* Datasets and the external tool
\* ------------------------------------------------------------------------

\* What the model keeps of a netCDF file.  intervals lists the climatological
\* intervals the time axis holds, in record order (empty: not a climatology);
\* time_labels lists the intervals whose time values and climatology bounds
\* update_metadata_and_time_var wrote, in the order it wrote them;
\* climo_times is the period its attributes climo_start_time and
\* climo_end_time give (0: no such attributes).
new_input_file(varnames, res, multi_year, flux) ==
    [dependent_varnames |-> varnames,
     time_resolution    |-> res,
     is_multi_year      |-> multi_year,
     intervals          |-> <<>>,
     history            |-> InputHistory,
     lon180             |-> FALSE,
     flux               |-> flux,
     frequency          |-> <<>>,
     time_labels        |-> <<>>,
     climo_times        |-> 0]

\* Time resolution made by an aggregating operator, interval made by a
\* climatological operator
aggregate_prefixes == [year |-> "yearly", seas |-> "seasonal", mon |-> "monthly"]
climo_prefixes == [ymon |-> "monthly", yseas |-> "seasonal", tim |-> "yearly"]

\* The dataset a cdo operator returns for the given input datasets; cdo puts
\* its own line on top of the first input's history.
cdo_result(op, inputs) ==
    LET first == inputs[1]
        base  == [first EXCEPT !.history = <<"cdo">> \o @]
    IN  CASE op[1] \in DOMAIN aggregate_prefixes ->
                 [base EXCEPT !.time_resolution = aggregate_prefixes[op[1]]]
          [] op[1] \in DOMAIN climo_prefixes ->
                 [base EXCEPT !.time_resolution = climo_prefixes[op[1]],
                              !.intervals = <<climo_prefixes[op[1]]>>]
          [] op[1] = "copy" ->
                 [base EXCEPT !.intervals =
                      Flatten([i \in 1..Len(inputs) |-> inputs[i].intervals])]
          [] op[1] = "select" ->
                 [base EXCEPT !.dependent_varnames = <<op[2]>>]
          [] op[1] = "mulc" ->
                 [base EXCEPT !.flux = "per_day_values"]
          [] op[1] = "replace" ->
                 [base EXCEPT !.flux = inputs[2].flux]
          [] OTHER -> base

\* Number of time values of a climatology over one interval
interval_size == [monthly |-> 12, seasonal |-> 4, yearly |-> 1]

time_var_size(ds) ==
    SumSeq([i \in 1..Len(ds.intervals) |-> interval_size[ds.intervals[i]]])

\* ------------------------------------------------------------------------
\* State
\* ------------------------------------------------------------------------

VARIABLES
    input_file,          \* the input dataset (file id 0)
    operation,           \* arguments of create_climo_files
    output_resolutions,  \*   a collection, here in its iteration order
    split_vars,
    split_intervals,
    convert_longitudes,
    pc,                  \* position in the body of create_climo_files
    var_type,            \* category of the file, "" until classified
    temporal_subset,     \* file id of cdo.seldate's output, 0 until made
    aggregations,        \* generate_aggregates' dict: <<[res, data]>> in order
    climo_files,         \* the list climo_files: file ids
    tmp,                 \* temporary files: tmp[i] is the dataset with id i
    cdo_log,             \* cdo calls made so far: [op, input, output]
    edits,               \* in-place edits made so far: [what, file]
    warnings,            \* number of warnings.warn calls of climo_outputs
    error,               \* message of the exception raised, or "none"
    error_arg,           \* the value formatted into that message
    outdir,              \* files of the output directory: {[name, data]}
    output_file_paths    \* the list returned

vars == <<input_file, operation, output_resolutions, split_vars,
          split_intervals, convert_longitudes, pc, var_type, temporal_subset,
          aggregations, climo_files, tmp, cdo_log, edits, warnings, error,
          error_arg, outdir, output_file_paths>>

args == <<operation, output_resolutions, split_vars, split_intervals,
          convert_longitudes>>

\* State of the generate_climos script (dp/scripts/generate_climos.py), which
\* calls create_climo_files once per input file and climatological period
VARIABLES
    filepaths,           \* args.filepaths: what each path holds
    dry_run,             \* args.dry_run
    file_index,          \* position of main's loop over filepaths
    periods,             \* periods of the current file still to process,
                         \* in the order the loop takes them; the first
                         \* is the one create_climo_files is running for
    returned,            \* positions of the files generate_climos returned for
    script_pc            \* position in main, "none" outside a script run

script_vars == <<filepaths, dry_run, file_index, periods, returned, script_pc>>

\* State of the decompose_flow_vectors script
VARIABLES
    flow_source,         \* the source dataset: dimensions and variables
    flow_variable,       \* args.variable
    flow_dest,           \* the vector variables of the destination file,
                         \* <<>> until the file is created
    flow_pc              \* position in main, or the way the script ended

flow_vars == <<flow_source, flow_variable, flow_dest, flow_pc>>

\* State of update_metadata's process_updates
VARIABLES
    dataset,             \* the dataset being updated: variables and attributes
    updates,             \* the updates: <<[key, update]>> in the dict's order
    update_index,        \* number of entries process_updates has taken
    update_error,        \* the exception that left process_updates, or "none"
    dataset_before       \* the dataset as the entry taken last found it

update_vars == <<dataset, updates, update_index, update_error, dataset_before>>

\* State of a call of format_dsg_timeseries' copy_global_metadata
VARIABLES
    md_file,             \* input: the global attributes of the source file
    md_prefix,           \* the prefix, <<>> when there is none
    dest,                \* the destination: its kind and its attributes
    dest_before,         \* the destination as it was passed
    copy_pc              \* "called", then "returned" or the exception raised

copy_vars == <<md_file, md_prefix, dest, dest_before, copy_pc>>

\* State of a call of format_dsg_timeseries' guess_id_variable
VARIABLES
    nc,                  \* nc.variables: <<[name, dimensions, cf_role]>>
    instance_dim,        \* the instance dimension
    id_var,              \* the variable returned, "" until then
    guess_pc             \* "called", then "returned" or "Exception"

guess_vars == <<nc, instance_dim, id_var, guess_pc>>

\* State of generate_prsn: generate_prsn_file from the temperature units on
VARIABLES
    tasmin,              \* the tasmin variable: [units, data]
    tasmax,              \* the tasmax variable, then what line 295 assigns
    tasmax_read,         \* the tasmax variable as read from its file
    chunks,              \* the generator of process_to_prsn's loop
    prsn_writes,         \* the slices <<start, end>> of prsn written so far
    prsn_pc              \* position in generate_prsn_file

prsn_vars == <<tasmin, tasmax, tasmax_read, chunks, prsn_writes, prsn_pc>>

\* State of a call of generate_climo_time_var
VARIABLES
    t_start,             \* start of the period: <<year, month, day>>
    t_end,               \* end of the period
    time_types,          \* types: the set of intervals
    times,               \* the list times returned, <<>> until then
    climo_bounds,        \* the list climo_bounds returned
    times_pc             \* "called", then "returned"

times_vars == <<t_start, t_end, time_types, times, climo_bounds, times_pc>>

\* State of process_updates on an entry "global: {name: value, ...}"
VARIABLES
    attr_dataset,        \* the dataset: variables and global attributes
    attr_updates,        \* the dict of attribute updates, in its order
    attr_index,          \* number of attribute updates handled
    attr_error,          \* the exception raised, "none" while running
    attr_before          \* the dataset before the last update handled

attrs_vars == <<attr_dataset, attr_updates, attr_index, attr_error, attr_before>>

\* The programs of the package share no state: while one of them runs, the
\* state of each other program stays as it is
tool_vars == <<flow_vars, update_vars, copy_vars, guess_vars, prsn_vars,
    times_vars, attrs_vars>>

tools_unchanged == UNCHANGED tool_vars

\* A step of create_climo_files changes nothing of its caller's state
caller_unchanged == UNCHANGED script_vars /\ tools_unchanged

flow_idle ==
    /\ flow_source = [dimensions |-> {}, variables |-> EmptyDict]
    /\ flow_variable = ""
    /\ flow_dest = <<>>
    /\ flow_pc = "none"

update_idle ==
    /\ dataset = [variables |-> EmptyDict, attributes |-> EmptyDict]
    /\ updates = <<>>
    /\ update_index = 0
    /\ update_error = "none"
    /\ dataset_before = dataset

copy_idle ==
    /\ md_file = EmptyDict
    /\ md_prefix = <<>>
    /\ dest = [kind |-> "Dataset", attributes |-> EmptyDict]
    /\ dest_before = dest
    /\ copy_pc = "none"

guess_idle ==
    /\ nc = <<>>
    /\ instance_dim = ""
    /\ id_var = ""
    /\ guess_pc = "none"

prsn_idle ==
    /\ tasmin = [units |-> "", data |-> <<>>]
    /\ tasmax = tasmin
    /\ tasmax_read = tasmin
    /\ chunks = [size |-> 0, start |-> 0, end |-> 0, max_len |-> 0]
    /\ prsn_writes = <<>>
    /\ prsn_pc = "none"

times_idle ==
    /\ t_start = <<>>
    /\ t_end = <<>>
    /\ time_types = {}
    /\ times = <<>>
    /\ climo_bounds = <<>>
    /\ times_pc = "none"

attrs_idle ==
    /\ attr_dataset = <<>>
    /\ attr_updates = <<>>
    /\ attr_index = 0
    /\ attr_error = "none"
    /\ attr_before = <<>>

tools_idle == flow_idle /\ update_idle /\ copy_idle /\ guess_idle /\
    prsn_idle /\ times_idle /\ attrs_idle

\* The files and the logs the steps thread through the helper operators
store == [input |-> input_file, tmp |-> tmp, cdo_log |-> cdo_log, edits |-> edits]

file_of(st, id) == IF id = 0 THEN st.input ELSE st.tmp[id]

\* One cdo call: a new temporary file, whose id is Len(tmp) afterwards
cdo_call(st, op, input) ==
    [st EXCEPT
        !.tmp = Append(@, cdo_result(op, [i \in 1..Len(input) |-> file_of(st, input[i])])),
        !.cdo_log = Append(@, [op |-> op, input |-> input, output |-> Len(st.tmp) + 1])]

last_id(st) == Len(st.tmp)

\* One in-place edit ("r+") of file id, leaving it as dataset ds
edit_in_place(st, what, id, ds) ==
    [st EXCEPT
        !.input = IF id = 0 THEN ds ELSE @,
        !.tmp = IF id = 0 THEN @ ELSE [@ EXCEPT ![id] = ds],
        !.edits = Append(@, [what |-> what, file |-> id])]

\* getattr(cdo, op)(input=data) for op in operations: one call per operator
RECURSIVE cdo_each(_, _, _)
cdo_each(st, ops, data) ==
    IF ops = <<>> THEN st
    ELSE cdo_each(cdo_call(st, Head(ops), <<data>>), Tail(ops), data)

\* ids of the n files made last
last_ids(st, n) == [i \in 1..n |-> Len(st.tmp) - n + i]

\* ------------------------------------------------------------------------
\* Initial states: an input file and the arguments of one call
\* ------------------------------------------------------------------------

has_flux_var(varnames) == \E i \in 1..Len(flux_names) : flux_names[i] \in Range(varnames)

\* The call gets past the checks made before any argument but operation is read
passes_checks(file, op) ==
    /\ ~file.is_multi_year
    /\ validate_operation(op)
    /\ unsupported_variables(file.dependent_varnames) = <<>>
    /\ Cardinality(var_types_of(file.dependent_varnames)) = 1

\* No script is running
script_idle ==
    /\ filepaths = <<>>
    /\ dry_run = FALSE
    /\ file_index = 0
    /\ periods = <<>>
    /\ returned = {}
    /\ script_pc = "none"

\* generate_climos' default of resolutions: a set, which Python iterates in
\* an order that differs from run to run
default_resolutions ==
    {q \in InjectiveSeqs({"yearly", "seasonal", "monthly"}, 3) : Len(q) = 3}

\* The script's default of -r/--resolutions: a list
script_resolutions == <<"yearly", "seasonal", "monthly">>

Init ==
    /\ \E varnames \in InjectiveSeqs(VarPool, MaxVars), res \in Resolutions,
          my \in BOOLEAN, flux \in FluxKinds :
          /\ has_flux_var(varnames) \/ flux = "per_day"
          /\ input_file = new_input_file(varnames, res, my, flux)
    /\ operation \in OperationInputs
    \* a call that fails its checks reads no other argument: one choice of them
    /\ output_resolutions \in
           IF passes_checks(input_file, operation)
           THEN InjectiveSeqs(Resolutions, MaxRequested)
           ELSE default_resolutions
    /\ split_vars \in IF passes_checks(input_file, operation) THEN BOOLEAN ELSE {TRUE}
    /\ split_intervals \in IF passes_checks(input_file, operation) THEN BOOLEAN ELSE {TRUE}
    /\ convert_longitudes \in IF passes_checks(input_file, operation) THEN BOOLEAN ELSE {TRUE}
    /\ pc = "start"
    /\ var_type = ""
    /\ temporal_subset = 0
    /\ aggregations = <<>>
    /\ climo_files = <<>>
    /\ tmp = <<>>
    /\ cdo_log = <<>>
    /\ edits = <<>>
    /\ warnings = 0
    /\ error = "none"
    /\ error_arg = ""
    /\ outdir = {}
    /\ output_file_paths = <<>>
    \* create_climo_files called directly, as the tests call it
    /\ script_idle
    /\ tools_idle

\* ------------------------------------------------------------------------
\* Steps of create_climo_files
\* ------------------------------------------------------------------------

raise(msg, arg) ==
    pc' = "failed" /\ error' = msg /\ error_arg' = arg /\ caller_unchanged

goto(label) == pc' = label /\ UNCHANGED <<error, error_arg>> /\ caller_unchanged

\* Write back the files and logs a step threaded through the helpers
commit(st) ==
    /\ input_file' = st.input
    /\ tmp' = st.tmp
    /\ cdo_log' = st.cdo_log
    /\ edits' = st.edits

files_unchanged == UNCHANGED <<input_file, tmp, cdo_log, edits>>

\* if input_file.is_multi_year: raise
CheckMultiYear ==
    /\ pc = "start"
    /\ IF input_file.is_multi_year
       THEN raise("This file already contains climatologies", "")
       ELSE goto("validate")
    /\ files_unchanged
    /\ UNCHANGED <<args, var_type, temporal_subset, aggregations, climo_files,
                   warnings, outdir, output_file_paths>>

\* validate_operation(operation)
ValidateOperation ==
    /\ pc = "validate"
    /\ IF validate_operation(operation)
       THEN goto("classify")
       ELSE raise("Unsupported operation: can't yet process", operation)
    /\ files_unchanged
    /\ UNCHANGED <<args, var_type, temporal_subset, aggregations, climo_files,
                   warnings, outdir, output_file_paths>>

\* The var_types comprehension, its KeyError handler, the one-type check
Classify ==
    /\ pc = "classify"
    /\ LET bad == unsupported_variables(input_file.dependent_varnames)
           types == var_types_of(input_file.dependent_varnames)
       IN  IF bad # <<>>
           THEN /\ raise("Unsupported variable: can't yet process", Head(bad))
                /\ UNCHANGED var_type
           ELSE IF ~one_type_only(types)
           THEN /\ raise("Only one type of variable allowed per file", "")
                /\ UNCHANGED var_type
           ELSE /\ goto("seldate")
                /\ var_type' = CHOOSE t \in types : TRUE
    /\ files_unchanged
    /\ UNCHANGED <<args, temporal_subset, aggregations, climo_files,
                   warnings, outdir, output_file_paths>>

\* Mutant of SelectTemporalSubset: the temporal subset written into outdir
SelectTemporalSubset_in_outdir ==
    /\ pc = "seldate"
    /\ LET st == cdo_call(store, <<"seldate", "">>, <<0>>)
       IN  /\ commit(st) /\ temporal_subset' = last_id(st)
           /\ outdir' = {[name |-> [variables |-> input_file.dependent_varnames,
                                    frequency |-> <<>>],
                          data |-> file_of(st, last_id(st))]}
    /\ goto("history_start")
    /\ UNCHANGED <<args, var_type, aggregations, climo_files,
                   warnings, output_file_paths>>

\* temporal_subset = cdo.seldate(date_range, input=input_file.filepath())
SelectTemporalSubset ==
    /\ pc = "seldate"
    /\ LET st == cdo_call(store, <<"seldate", "">>, <<0>>)
       IN  commit(st) /\ temporal_subset' = last_id(st)
    /\ goto("history_start")
    /\ UNCHANGED <<args, var_type, aggregations, climo_files,
                   warnings, outdir, output_file_paths>>

\* Mutant of list_insert: the line appended, whatever the position
list_insert_last(list, position, x) == Append(list, x)

\* hist_list.insert(position, hist_line)
list_insert(list, position, x) ==
    LET k == IF position < Len(list) THEN position ELSE Len(list)
    IN  SubSeq(list, 1, k) \o <<x>> \o SubSeq(list, k + 1, Len(list))

\* update_generate_climos_history on one file
update_generate_climos_history(st, id, position) ==
    LET ds == file_of(st, id)
        hist_line == IF position # 0 THEN "start: generate_climos"
                                     ELSE "end: generate_climos"
    IN  edit_in_place(st, "history", id,
            [ds EXCEPT !.history = list_insert(@, position, hist_line)])

\* Mutant of UpdateHistoryStart: the start line written to the input file
UpdateHistoryStart_on_input ==
    /\ pc = "history_start"
    /\ commit(update_generate_climos_history(store, 0, 1))
    /\ goto("climo")
    /\ UNCHANGED <<args, var_type, temporal_subset, aggregations, climo_files,
                   warnings, outdir, output_file_paths>>

UpdateHistoryStart ==
    /\ pc = "history_start"
    /\ commit(update_generate_climos_history(store, temporal_subset, 1))
    /\ goto("climo")
    /\ UNCHANGED <<args, var_type, temporal_subset, aggregations, climo_files,
                   warnings, outdir, output_file_paths>>

\* Mutant of aggregate_argument: every category aggregated like a point file
aggregate_argument_always(category) == TRUE

\* The aggregate argument create_climo_files passes to climo_outputs
aggregate_argument(category) == category = "point"

\* climo_outputs(time_resolution, operation, data, aggregate, resolutions),
\* cdo calls included: the files made, or the exception
call_climo_outputs(st, time_resolution, data, aggregate) ==
    LET r == climo_outputs(time_resolution, operation, aggregate, output_resolutions)
        st2 == cdo_each(st, r.ops, data)
    IN  [st |-> st2, files |-> last_ids(st2, Len(r.ops)),
         warned |-> r.warned, error |-> r.error]

\* var_type == "point": one call on the temporal subset
FormClimoPoint ==
    /\ pc = "climo" /\ var_type = "point"
    /\ LET r == call_climo_outputs(store, input_file.time_resolution,
                                   temporal_subset, aggregate_argument("point"))
       IN  /\ commit(r.st)
           /\ climo_files' = r.files
           /\ warnings' = warnings + (IF r.warned THEN 1 ELSE 0)
           /\ IF r.error # "none" THEN raise(r.error, "") ELSE goto("concat")
    /\ UNCHANGED <<args, var_type, temporal_subset, aggregations,
                   outdir, output_file_paths>>

\* var_type == "duration": one call on the temporal subset, aggregate False
FormClimoDuration ==
    /\ pc = "climo" /\ var_type = "duration"
    /\ LET r == call_climo_outputs(store, input_file.time_resolution,
                                   temporal_subset, aggregate_argument("duration"))
       IN  /\ commit(r.st)
           /\ climo_files' = r.files
           /\ warnings' = warnings + (IF r.warned THEN 1 ELSE 0)
           /\ IF r.error # "none" THEN raise(r.error, "") ELSE goto("concat")
    /\ UNCHANGED <<args, var_type, temporal_subset, aggregations,
                   outdir, output_file_paths>>

\* generate_aggregates with its cdo calls: the dict as <<[res, data]>>
RECURSIVE make_aggregates(_, _, _)
make_aggregates(st, entries, data) ==
    IF entries = <<>> THEN [st |-> st, aggs |-> <<>>]
    ELSE LET e == Head(entries)
             st2 == IF e.op = NoOp THEN st ELSE cdo_call(st, e.op, <<data>>)
             made == IF e.op = NoOp THEN data ELSE last_id(st2)
             rest == make_aggregates(st2, Tail(entries), data)
         IN  [st |-> rest.st,
              aggs |-> <<[res |-> e.res, data |-> made]>> \o rest.aggs]

\* aggregations = generate_aggregates(temporal_subset, input_file, var_type)
GenerateAggregates ==
    /\ pc = "climo" /\ var_type \in {"count", "maximum", "minimum"}
    /\ LET r == make_aggregates(store,
                    generate_aggregates(input_file.time_resolution, var_type),
                    temporal_subset)
       IN  commit(r.st) /\ aggregations' = r.aggs
    /\ goto("climo_aggregates")
    /\ UNCHANGED <<args, var_type, temporal_subset, climo_files,
                   warnings, outdir, output_file_paths>>

\* Mutant of aggregate_data: the temporal subset passed for every resolution
aggregate_data_subset(entry, subset) == subset

\* The dataset the loop passes to climo_outputs for one aggregations entry
aggregate_data(entry, subset) == entry.data

\* for res in aggregations: climo_files.extend(climo_outputs(res, ...))
RECURSIVE climo_each_aggregate(_, _, _)
climo_each_aggregate(st, aggs, subset) ==
    IF aggs = <<>>
    THEN [st |-> st, files |-> <<>>, warned |-> 0, error |-> "none"]
    ELSE LET r == call_climo_outputs(st, Head(aggs).res,
                      aggregate_data(Head(aggs), subset),
                      aggregate_argument(var_type))
         IN  IF r.error # "none"
             THEN [st |-> r.st, files |-> <<>>, warned |-> 0, error |-> r.error]
             ELSE LET rest == climo_each_aggregate(r.st, Tail(aggs), subset)
                  IN  [st |-> rest.st,
                       files |-> r.files \o rest.files,
                       warned |-> (IF r.warned THEN 1 ELSE 0) + rest.warned,
                       error |-> rest.error]

FormClimoAggregates ==
    /\ pc = "climo_aggregates"
    /\ LET r == climo_each_aggregate(store, aggregations, temporal_subset)
       IN  /\ commit(r.st)
           /\ climo_files' = r.files
           /\ warnings' = warnings + r.warned
           /\ IF r.error # "none" THEN raise(r.error, "") ELSE goto("concat")
    /\ UNCHANGED <<args, var_type, temporal_subset, aggregations,
                   outdir, output_file_paths>>

\* if not split_intervals and climo_files: one cdo.copy of all the files
ConcatenateIntervals ==
    /\ pc = "concat"
    /\ IF ~split_intervals /\ climo_files # <<>>
       THEN LET st == cdo_call(store, <<"copy", "">>, climo_files)
            IN  commit(st) /\ climo_files' = <<last_id(st)>>
       ELSE files_unchanged /\ UNCHANGED climo_files
    /\ goto("longitudes")
    /\ UNCHANGED <<args, var_type, temporal_subset, aggregations,
                   warnings, outdir, output_file_paths>>

\* convert_longitude_range on each file, in place
RECURSIVE convert_longitude_range(_, _)
convert_longitude_range(st, ids) ==
    IF ids = <<>> THEN st
    ELSE convert_longitude_range(
             edit_in_place(st, "longitudes", Head(ids),
                 [file_of(st, Head(ids)) EXCEPT !.lon180 = TRUE]),
             Tail(ids))

ConvertLongitudes ==
    /\ pc = "longitudes"
    /\ IF convert_longitudes /\ climo_files # <<>>
       THEN commit(convert_longitude_range(store, climo_files))
       ELSE files_unchanged
    /\ goto("flux")
    /\ UNCHANGED <<args, var_type, temporal_subset, aggregations, climo_files,
                   warnings, outdir, output_file_paths>>

\* convert_flux_var_units on one file, for the flux variables left to do:
\* the logs and the file that holds the result
RECURSIVE convert_flux_var_units(_, _, _)
convert_flux_var_units(st, flux_vars, climo_data) ==
    IF flux_vars = <<>> THEN [st |-> st, data |-> climo_data]
    ELSE LET flux_var == Head(flux_vars)
             units == st.input.flux
         IN  IF units = "per_second"
             THEN LET st1 == cdo_call(st, <<"select", flux_var>>, <<climo_data>>)
                      st2 == cdo_call(st1, <<"mulc", "86400">>, <<last_id(st1)>>)
                      st3 == cdo_call(st2, <<"replace", "">>, <<climo_data, last_id(st2)>>)
                      st4 == edit_in_place(st3, "units", last_id(st3),
                                 [file_of(st3, last_id(st3)) EXCEPT !.flux = "per_day"])
                  IN  convert_flux_var_units(st4, Tail(flux_vars), last_id(st3))
             ELSE IF units = "per_second_packed"
             THEN LET st1 == edit_in_place(st, "units", climo_data,
                                 [file_of(st, climo_data) EXCEPT !.flux = "per_day"])
                  IN  convert_flux_var_units(st1, Tail(flux_vars), climo_data)
             ELSE convert_flux_var_units(st, Tail(flux_vars), climo_data)

RECURSIVE convert_flux_each(_, _)
convert_flux_each(st, ids) ==
    IF ids = <<>> THEN [st |-> st, files |-> <<>>]
    ELSE LET flux_vars == SelectSeq(flux_names,
                 LAMBDA v : v \in Range(st.input.dependent_varnames))
             r == convert_flux_var_units(st, flux_vars, Head(ids))
             rest == convert_flux_each(r.st, Tail(ids))
         IN  [st |-> rest.st, files |-> <<r.data>> \o rest.files]

ConvertFluxUnits ==
    /\ pc = "flux"
    /\ LET r == convert_flux_each(store, climo_files)
       IN  commit(r.st) /\ climo_files' = r.files
    /\ goto("metadata")
    /\ UNCHANGED <<args, var_type, temporal_subset, aggregations,
                   warnings, outdir, output_file_paths>>

\* update_metadata_and_time_var: the table from the number of time values
num_times_to_interval_set ==
    (12 :> {"monthly"}) @@ (4 :> {"seasonal"}) @@ (1 :> {"annual"})
    @@ (5 :> {"seasonal", "annual"}) @@ (17 :> {"monthly", "seasonal", "annual"})

\* generate_climo_time_var: the intervals whose times and bounds it appends,
\* in the order it appends them
generate_climo_time_var(types) ==
    (IF "monthly" \in types THEN <<"monthly">> ELSE <<>>)
    \o (IF "seasonal" \in types THEN <<"seasonal">> ELSE <<>>)
    \o (IF "annual" \in types THEN <<"annual">> ELSE <<>>)

\* Mutant of frequency_of: the prefix of a file of all three intervals
frequency_of_all(interval_set, op) ==
    <<"m", "s", "a", "Clim", IF op = "std" THEN "SD" ELSE "Mean">>

\* prefix + "Clim" + suffix, kept as the sequence of its parts: the letters
\* of the prefix, "Clim", the suffix
frequency_of(interval_set, op) ==
    (IF "monthly" \in interval_set THEN <<"m">> ELSE <<>>)
    \o (IF "seasonal" \in interval_set THEN <<"s">> ELSE <<>>)
    \o (IF "annual" \in interval_set THEN <<"a">> ELSE <<>>)
    \o <<"Clim">>
    \o <<IF op = "std" THEN "SD" ELSE "Mean">>

\* The period (t_start, t_end) of the running call of create_climo_files:
\* the one the loop of generate_climos is at, or period 1 for a direct call
climo_period == IF periods = <<>> THEN 1 ELSE Head(periods)

\* update_metadata_and_time_var on each file in turn, in place; stops at the
\* first file whose number of time values is not in the table, after writing
\* its climo_start_time and climo_end_time.  The climatology attribute of the
\* time variable makes a file a multi-year file.
RECURSIVE update_metadata_and_time_var(_, _)
update_metadata_and_time_var(st, ids) ==
    IF ids = <<>> THEN [st |-> st, error |-> "none"]
    ELSE LET ds == file_of(st, Head(ids))
             n == time_var_size(ds)
         IN  IF n \notin DOMAIN num_times_to_interval_set
             THEN [st |-> edit_in_place(st, "climo_times", Head(ids),
                              [ds EXCEPT !.climo_times = climo_period]),
                   error |-> "Expected climo file to contain # time values in"]
             ELSE LET interval_set == num_times_to_interval_set[n]
                  IN  update_metadata_and_time_var(
                          edit_in_place(st, "metadata", Head(ids),
                              [ds EXCEPT
                                 !.climo_times = climo_period,
                                 !.frequency = frequency_of(interval_set, operation),
                                 !.time_labels = generate_climo_time_var(interval_set),
                                 !.is_multi_year = TRUE]),
                          Tail(ids))

UpdateMetadata ==
    /\ pc = "metadata"
    /\ LET r == update_metadata_and_time_var(store, climo_files)
       IN  /\ commit(r.st)
           /\ IF r.error # "none" THEN raise(r.error, "") ELSE goto("split")
    /\ UNCHANGED <<args, var_type, temporal_subset, aggregations, climo_files,
                   warnings, outdir, output_file_paths>>

\* split_on_variables on each file: one cdo.select per variable if several
RECURSIVE split_on_variables(_, _, _)
split_on_variables(st, ids, var_names) ==
    IF ids = <<>> THEN [st |-> st, files |-> <<>>]
    ELSE IF Len(var_names) > 1
    THEN LET st2 == cdo_each(st, [i \in 1..Len(var_names) |-> <<"select", var_names[i]>>],
                             Head(ids))
             rest == split_on_variables(st2, Tail(ids), var_names)
         IN  [st |-> rest.st, files |-> last_ids(st2, Len(var_names)) \o rest.files]
    ELSE LET rest == split_on_variables(st, Tail(ids), var_names)
         IN  [st |-> rest.st, files |-> <<Head(ids)>> \o rest.files]

SplitVariables ==
    /\ pc = "split"
    /\ IF split_vars
       THEN LET r == split_on_variables(store, climo_files,
                                        input_file.dependent_varnames)
            IN  commit(r.st) /\ climo_files' = r.files
       ELSE files_unchanged /\ UNCHANGED climo_files
    /\ goto("history_end")
    /\ UNCHANGED <<args, var_type, temporal_subset, aggregations,
                   warnings, outdir, output_file_paths>>

RECURSIVE history_end_each(_, _)
history_end_each(st, ids) ==
    IF ids = <<>> THEN st
    ELSE history_end_each(update_generate_climos_history(st, Head(ids), 0), Tail(ids))

UpdateHistoryEnd ==
    /\ pc = "history_end"
    /\ commit(history_end_each(store, climo_files))
    /\ goto("move")
    /\ UNCHANGED <<args, var_type, temporal_subset, aggregations, climo_files,
                   warnings, outdir, output_file_paths>>

\* cf.cmor_filename: the parts of it that differ between the files of a run:
\* the variables, the frequency and the date range of the period
cmor_filename(ds) ==
    [variables |-> ds.dependent_varnames, frequency |-> ds.frequency,
     time_range |-> ds.climo_times]

\* shutil.move of each file to outdir/cmor_filename, replacing a file there
RECURSIVE move_each(_, _, _)
move_each(dir, files, ids) ==
    IF ids = <<>> THEN dir
    ELSE LET ds == files[Head(ids)]
             name == cmor_filename(ds)
         IN  move_each({f \in dir : f.name # name} \union {[name |-> name, data |-> ds]},
                       files, Tail(ids))

MoveFiles ==
    /\ pc = "move"
    /\ outdir' = move_each(outdir, tmp, climo_files)
    /\ output_file_paths' =
           [i \in 1..Len(climo_files) |-> cmor_filename(tmp[climo_files[i]])]
    /\ goto("done")
    /\ files_unchanged
    /\ UNCHANGED <<args, var_type, temporal_subset, aggregations, climo_files, warnings>>

Next ==
    \/ CheckMultiYear
    \/ ValidateOperation
    \/ Classify
    \/ SelectTemporalSubset
    \/ UpdateHistoryStart
    \/ FormClimoPoint
    \/ FormClimoDuration
    \/ GenerateAggregates
    \/ FormClimoAggregates
    \/ ConcatenateIntervals
    \/ ConvertLongitudes
    \/ ConvertFluxUnits
    \/ UpdateMetadata
    \/ SplitVariables
    \/ UpdateHistoryEnd
    \/ MoveFiles

Spec == Init /\ [][Next]_vars

\* ------------------------------------------------------------------------
\* The generate_climos script: main's loop over the input files
\* ------------------------------------------------------------------------

MaxFiles == 2

\* Most standard climatological periods a file covers
MaxPeriods == 2

\* -p/--operation: choices=["mean", "std"]
script_operations == {"mean", "std"}

\* Datasets the paths of a run may hold: one per category, and one with a
\* variable create_climo_files cannot process
script_datasets ==
    {new_input_file(<<"tasmax">>, "monthly", FALSE, "per_day"),
     new_input_file(<<"prcptotETCCDI">>, "monthly", FALSE, "per_day"),
     new_input_file(<<"wsdiETCCDI">>, "yearly", FALSE, "per_day"),
     new_input_file(<<"foo">>, "monthly", FALSE, "per_day")}

no_dataset == new_input_file(<<>>, "yearly", FALSE, "per_day")

\* What a path holds: something CFDataset cannot open, or a dataset covering
\* climo_periods of the periods asked for
script_files ==
    {[is_netcdf |-> FALSE, climo_periods |-> 0, dataset |-> no_dataset]}
    \union [is_netcdf : {TRUE}, climo_periods : 0..MaxPeriods, dataset : script_datasets]

\* input_check: (None, []) for an unreadable file or one without periods,
\* else the file and the set of its periods that were asked for (a file that
\* covers n of them covers the periods 1..n);
\* None is the empty sequence here, a dataset d is <<d>>
input_check(file) ==
    IF ~file.is_netcdf THEN [input_file |-> <<>>, periods |-> {}]
    ELSE IF file.climo_periods = 0 THEN [input_file |-> <<>>, periods |-> {}]
    ELSE [input_file |-> <<file.dataset>>, periods |-> 1..file.climo_periods]

\* create_climo_files has not been called
create_climo_files_idle ==
    /\ input_file = no_dataset
    /\ pc = "none"
    /\ var_type = ""
    /\ temporal_subset = 0
    /\ aggregations = <<>>
    /\ climo_files = <<>>
    /\ tmp = <<>>
    /\ cdo_log = <<>>
    /\ edits = <<>>
    /\ warnings = 0
    /\ error = "none"
    /\ error_arg = ""
    /\ outdir = {}
    /\ output_file_paths = <<>>

\* generate_climos is not running: the script's defaults of its arguments
generate_climos_idle ==
    /\ operation = "mean"
    /\ output_resolutions = script_resolutions
    /\ split_vars = TRUE
    /\ split_intervals = TRUE
    /\ convert_longitudes = TRUE
    /\ create_climo_files_idle
    /\ script_idle

InitScript ==
    /\ filepaths \in UNION {[1..n -> script_files] : n \in 0..MaxFiles}
    /\ dry_run \in BOOLEAN
    /\ operation \in script_operations
    \* parser.set_defaults and the default of -r
    /\ output_resolutions = script_resolutions
    /\ split_vars = TRUE
    /\ split_intervals = TRUE
    /\ convert_longitudes = TRUE
    /\ file_index = 0
    /\ periods = <<>>
    /\ returned = {}
    /\ script_pc = "loop"
    /\ tools_idle
    /\ create_climo_files_idle

\* for filepath in args.filepaths: generate_climos(filepath, ...), up to the
\* return of its input_check.  periods is a set: the loop over it takes its
\* elements in an order that Python does not specify.
GenerateClimos ==
    /\ script_pc = "loop"
    /\ tools_unchanged
    /\ ~dry_run
    /\ file_index < Len(filepaths)
    /\ file_index' = file_index + 1
    /\ periods' \in Orderings(input_check(filepaths[file_index + 1]).periods)
    /\ script_pc' = "periods"
    /\ UNCHANGED <<filepaths, dry_run, returned, vars>>

\* for period in periods: create_climo_files(period, outdir, input_file, ...)
CallCreateClimoFiles ==
    /\ script_pc = "periods"
    /\ tools_unchanged
    /\ periods # <<>>
    /\ periods' = periods
    /\ script_pc' = "create"
    /\ input_file' = Head(input_check(filepaths[file_index]).input_file)
    /\ pc' = "start"
    /\ var_type' = ""
    /\ temporal_subset' = 0
    /\ aggregations' = <<>>
    /\ climo_files' = <<>>
    /\ tmp' = <<>>
    /\ cdo_log' = <<>>
    /\ edits' = <<>>
    /\ output_file_paths' = <<>>
    /\ UNCHANGED <<args, warnings, error, error_arg, outdir, filepaths, dry_run,
                   file_index, returned>>

\* create_climo_files returns: the loop over periods goes on to the next
CreateClimoFilesReturns ==
    /\ script_pc = "create"
    /\ tools_unchanged
    /\ pc = "done"
    /\ periods' = Tail(periods)
    /\ script_pc' = "periods"
    /\ UNCHANGED <<filepaths, dry_run, file_index, returned, vars>>

\* create_climo_files raises: neither generate_climos nor main catches it
ExceptionPropagates ==
    /\ script_pc = "create"
    /\ tools_unchanged
    /\ pc = "failed"
    /\ script_pc' = "traceback"
    /\ UNCHANGED <<filepaths, dry_run, file_index, periods, returned, vars>>

\* generate_climos returns once its periods are exhausted
GenerateClimosReturns ==
    /\ script_pc = "periods"
    /\ tools_unchanged
    /\ periods = <<>>
    /\ returned' = returned \union {file_index}
    /\ script_pc' = "loop"
    /\ UNCHANGED <<filepaths, dry_run, file_index, periods, vars>>

\* dry_run_handler(filepath, args.climo): reads input_file.dependent_varnames()
\* outside any try, whatever input_check returned
DryRunHandler ==
    /\ script_pc = "loop"
    /\ tools_unchanged
    /\ dry_run
    /\ file_index < Len(filepaths)
    /\ file_index' = file_index + 1
    /\ IF input_check(filepaths[file_index + 1]).input_file = <<>>
       THEN script_pc' = "traceback" /\ UNCHANGED returned
       ELSE script_pc' = "loop" /\ returned' = returned \union {file_index + 1}
    /\ UNCHANGED <<filepaths, dry_run, periods, vars>>

\* The loop is over: sys.exit(0) of a dry run, or main returns
MainReturns ==
    /\ script_pc = "loop"
    /\ tools_unchanged
    /\ file_index = Len(filepaths)
    /\ script_pc' = IF dry_run THEN "exit_0" ELSE "returned"
    /\ UNCHANGED <<filepaths, dry_run, file_index, periods, returned, vars>>

NextScript ==
    \/ GenerateClimos
    \/ CallCreateClimoFiles
    \/ CreateClimoFilesReturns
    \/ ExceptionPropagates
    \/ GenerateClimosReturns
    \/ DryRunHandler
    \/ MainReturns
    \/ Next

all_vars == <<vars, script_vars, tool_vars>>

SpecScript == InitScript /\ [][NextScript]_all_vars

\* ------------------------------------------------------------------------
\* The decompose_flow_vectors script
\* ------------------------------------------------------------------------

\* Most cells of a grid
MaxCells == 2

\* Cell values: a flow direction (1..9: 5 is south), one below and one above
FlowValues == {0, 5, 10}

Grids == UNION {[1..n -> FlowValues] : n \in 1..MaxCells}

FlowVarNames == {"flow", "elev"}

\* The variables of a source with the given dimensions: any of FlowVarNames,
\* each on all the dimensions or on all but lon, and the coordinate variables
\* of some of the dimensions
flow_sources_on(dims) ==
    UNION {
      {[dimensions |-> dims,
        variables |-> f @@ [n \in axes |-> [dimensions |-> {n}, values |-> <<5>>]]] :
           f \in [S -> [dimensions : {dims, dims \ {"lon"}}, values : Grids]]} :
      S \in SUBSET FlowVarNames, axes \in SUBSET dims}

RECURSIVE ma_max(_)
ma_max(a) ==
    IF Len(a) = 1 THEN a[1]
    ELSE IF a[1] > ma_max(Tail(a)) THEN a[1] ELSE ma_max(Tail(a))

RECURSIVE ma_min(_)
ma_min(a) ==
    IF Len(a) = 1 THEN a[1]
    ELSE IF a[1] < ma_min(Tail(a)) THEN a[1] ELSE ma_min(Tail(a))

\* Mutant of source_check: only the dimensions are checked
source_check_dimensions(source) ==
    IF "lon" \notin source.dimensions \/ "lat" \notin source.dimensions
    THEN "AttributeError"
    ELSE "passed"

\* source_check: the exception it raises, or "passed"
source_check(source) ==
    IF "lon" \notin source.dimensions \/ "lat" \notin source.dimensions
    THEN "AttributeError"
    ELSE LET valid_variables ==
                 {v \in DOMAIN source.variables :
                     /\ "lon" \in source.variables[v].dimensions
                     /\ "lat" \in source.variables[v].dimensions
                     /\ ma_max(source.variables[v].values) <= 9
                     /\ ma_min(source.variables[v].values) >= 1}
         IN  IF Cardinality(valid_variables) = 0 THEN "ValueError" ELSE "passed"

\* variable_check: the exception it raises, or "passed"
variable_check(source, variable) ==
    IF variable \notin DOMAIN source.variables THEN "AttributeError"
    ELSE LET named_variable == source.variables[variable]
         IN  IF "lon" \notin named_variable.dimensions
                \/ "lat" \notin named_variable.dimensions
             THEN "AttributeError"
             ELSE IF ma_max(named_variable.values) > 9 \/ ma_min(named_variable.values) < 1
             THEN "ValueError"
             ELSE "passed"

\* [north, east] components of the directions 0..9, in ten-thousandths
two_grid_vectors ==
    <<<<0, 0>>, <<10000, 0>>, <<7071, 7071>>, <<0, 10000>>, <<-7071, 7071>>,
      <<-10000, 0>>, <<-7071, -7071>>, <<0, -10000>>, <<7071, -7071>>, <<0, 0>>>>

two_grids == [eastward |-> 1, northward |-> 0]

\* generate_vector_component: the component grid_dir of every cell
generate_vector_component(grid_dir, vectors_field) ==
    [i \in 1..Len(vectors_field) |->
        IF vectors_field[i] >= 0 /\ vectors_field[i] <= 9
        THEN two_grid_vectors[vectors_field[i] + 1][two_grids[grid_dir] + 1]
        ELSE vectors_field[i]]

InitFlow ==
    /\ flow_source \in UNION {flow_sources_on(dims) : dims \in SUBSET {"lat", "lon"}}
    /\ flow_variable \in FlowVarNames \union {"lat"}
    /\ flow_dest = <<>>
    /\ flow_pc = "source_check"
    /\ generate_climos_idle
    /\ update_idle
    /\ copy_idle
    /\ guess_idle
    /\ prsn_idle
    /\ times_idle
    /\ attrs_idle

flow_only == UNCHANGED <<vars, script_vars, update_vars, copy_vars,
    guess_vars, prsn_vars, times_vars, attrs_vars>>

\* try: source_check(source) except (AttributeError, ValueError): sys.exit(1)
SourceCheck ==
    /\ flow_pc = "source_check"
    /\ flow_pc' = IF source_check(flow_source) = "passed"
                  THEN "variable_check" ELSE "exit_1"
    /\ UNCHANGED <<flow_source, flow_variable, flow_dest>>
    /\ flow_only

\* try: variable_check(source, args.variable) except ...: sys.exit(2)
VariableCheck ==
    /\ flow_pc = "variable_check"
    /\ flow_pc' = IF variable_check(flow_source, flow_variable) = "passed"
                  THEN "decompose" ELSE "exit_2"
    /\ UNCHANGED <<flow_source, flow_variable, flow_dest>>
    /\ flow_only

\* create_graticule_variables: the exception raised by
\* source.variables[axis], or "none"
create_graticule_variables(axis, source) ==
    IF axis \in DOMAIN source.variables THEN "none" ELSE "KeyError"

\* decompose_flow_vectors: the exception raised, and the vector variables of
\* the destination file, which is created first
decompose_flow_vectors(source, variable) ==
    IF create_graticule_variables("lat", source) # "none"
    THEN [raised |-> create_graticule_variables("lat", source), dest |-> EmptyDict]
    ELSE IF create_graticule_variables("lon", source) # "none"
    THEN [raised |-> create_graticule_variables("lon", source), dest |-> EmptyDict]
    ELSE [raised |-> "none",
          dest |-> [eastward |-> generate_vector_component("eastward",
                                     source.variables[variable].values),
                    northward |-> generate_vector_component("northward",
                                     source.variables[variable].values)]]

\* decompose_flow_vectors(source, args.dest_file, args.variable); main
\* catches nothing it raises
DecomposeFlowVectors ==
    /\ flow_pc = "decompose"
    /\ LET r == decompose_flow_vectors(flow_source, flow_variable)
       IN  /\ flow_dest' = <<r.dest>>
           /\ flow_pc' = IF r.raised = "none" THEN "exit_0" ELSE "traceback"
    /\ UNCHANGED <<flow_source, flow_variable>>
    /\ flow_only

NextFlow ==
    \/ SourceCheck
    \/ VariableCheck
    \/ DecomposeFlowVectors

SpecFlow == InitFlow /\ [][NextFlow]_all_vars

\* ------------------------------------------------------------------------
\* update_metadata: process_updates and the renaming of variables
\* ------------------------------------------------------------------------

\* A string is the sequence of its parts: the prefixes "<-" and "=", blanks
\* " ", quotes "'", names and identifiers.  A name n as a string is <<n>>.

MaxUpdates == 2

rename_prefix == "<-"
expression_prefix == "="

is_string_and_starts_with(prefix, thing) == thing # <<>> /\ thing[1] = prefix

is_rename(thing) == is_string_and_starts_with(rename_prefix, thing)
is_expression(thing) == is_string_and_starts_with(expression_prefix, thing)

\* str.strip
RECURSIVE lstrip(_)
lstrip(string) ==
    IF string # <<>> /\ Head(string) = " " THEN lstrip(Tail(string)) ELSE string

RECURSIVE rstrip(_)
rstrip(string) ==
    IF string # <<>> /\ string[Len(string)] = " "
    THEN rstrip(SubSeq(string, 1, Len(string) - 1)) ELSE string

strip_prefix(prefix, string) == rstrip(lstrip(Tail(string)))

strip_rename_prefix(string) == strip_prefix(rename_prefix, string)
strip_expression_prefix(string) == strip_prefix(expression_prefix, string)

\* Names in sorted order
sorted_names == <<"foovar", "global", "newvar", "var1", "var2">>

\* sorted(dataset.dependent_varnames())[0]; every variable of the datasets
\* here is a dependent variable
first_dependent_varname(ds) ==
    sorted_names[CHOOSE i \in 1..Len(sorted_names) :
        /\ sorted_names[i] \in DOMAIN ds.variables
        /\ \A j \in 1..(i - 1) : sorted_names[j] \notin DOMAIN ds.variables]

\* evaluate_expression for an expression that is one quoted string or one
\* identifier: its value in the context made of the global attributes and
\* dependent_varname, or the exception raised.  The context is made before
\* the expression is looked at.
evaluate_expression(ds, expression) ==
    IF DOMAIN ds.variables = {}
    THEN [raised |-> "IndexError", value |-> <<>>]
    ELSE IF Len(expression) = 3 /\ expression[1] = "'" /\ expression[3] = "'"
    THEN [raised |-> "none", value |-> <<expression[2]>>]
    ELSE IF expression = <<"dependent_varname">>
    THEN [raised |-> "none", value |-> <<first_dependent_varname(ds)>>]
    ELSE IF Len(expression) = 1 /\ expression[1] \in DOMAIN ds.attributes
    THEN [raised |-> "none", value |-> ds.attributes[expression[1]]]
    ELSE [raised |-> "NameError", value |-> <<>>]

evaluate_string(ds, string) ==
    IF is_expression(string)
    THEN evaluate_expression(ds, strip_expression_prefix(string))
    ELSE [raised |-> "none", value |-> string]

\* name in dataset.variables
in_variables(ds, name) == Len(name) = 1 /\ name[1] \in DOMAIN ds.variables

\* dataset.renameVariable(old_name, target_name)
renameVariable(ds, old_name, target_name) ==
    [ds EXCEPT !.variables =
        [n \in (DOMAIN @ \ {old_name[1]}) \union {target_name[1]} |->
            IF n = target_name[1] THEN @[old_name[1]] ELSE @[n]]]

rename_variable(ds, target_name, old_name) ==
    LET old == evaluate_string(ds, old_name) IN
    IF old.raised # "none"
    THEN [raised |-> old.raised, dataset |-> ds]
    ELSE IF in_variables(ds, old.value) /\ ~in_variables(ds, target_name)
    THEN [raised |-> "none", dataset |-> renameVariable(ds, old.value, target_name)]
    ELSE [raised |-> "none", dataset |-> ds]

\* The body of process_updates' loop for one entry whose update is a string
process_update(ds, target_key, update) ==
    LET target_name == evaluate_string(ds, target_key) IN
    IF target_name.raised # "none"
    THEN [raised |-> target_name.raised, dataset |-> ds]
    ELSE IF target_name.value = <<"global">>
    THEN \* apply_attribute_updates logs that it cannot process a string
         [raised |-> "none", dataset |-> ds]
    ELSE IF is_rename(update)
    THEN rename_variable(ds, target_name.value, strip_rename_prefix(update))
    ELSE IF ~in_variables(ds, target_name.value)
    THEN [raised |-> "KeyError", dataset |-> ds]
    ELSE [raised |-> "none", dataset |-> ds]

\* Datasets with some of the variables var1 and var2; a variable's content
\* is identified by the name it had at first
update_datasets ==
    { [variables |-> [n \in names |-> n],
       attributes |-> ("variable_name" :> <<"var2">>)] :
        names \in SUBSET {"var1", "var2"} }

update_keys ==
    { <<"var1">>, <<"newvar">>, <<"global">>, <<"=", "'", "newvar", "'">>,
      <<"=", "dependent_varname">>, <<"=", " ", "variable_name">> }

update_values ==
    { <<"<-", "var1">>, <<"<-", " ", "var1", " ">>, <<"<-", "var2">>,
      <<"<-", "foovar">>, <<"<-", "=", "dependent_varname">>, <<"var1">> }

\* A dict of updates: its keys are distinct
update_dicts ==
    { u \in UNION { [1..n -> [key : update_keys, update : update_values]] :
                        n \in 1..MaxUpdates } :
        \A i, j \in DOMAIN u : i # j => u[i].key # u[j].key }

InitUpdate ==
    /\ dataset \in update_datasets
    /\ updates \in update_dicts
    /\ update_index = 0
    /\ update_error = "none"
    /\ dataset_before = dataset
    /\ generate_climos_idle
    /\ flow_idle
    /\ copy_idle
    /\ guess_idle
    /\ prsn_idle
    /\ times_idle
    /\ attrs_idle

update_only == UNCHANGED <<vars, script_vars, flow_vars, copy_vars,
    guess_vars, prsn_vars, times_vars, attrs_vars>>

\* One iteration of the loop of process_updates
ProcessUpdate ==
    /\ update_error = "none"
    /\ update_index < Len(updates)
    /\ LET entry == updates[update_index + 1]
           result == process_update(dataset, entry.key, entry.update)
       IN /\ dataset_before' = dataset
          /\ dataset' = result.dataset
          /\ update_error' = result.raised
    /\ update_index' = update_index + 1
    /\ UNCHANGED updates
    /\ update_only

NextUpdate == ProcessUpdate

SpecUpdate == InitUpdate /\ [][NextUpdate]_all_vars

\* ------------------------------------------------------------------------
\* format_dsg_timeseries: copy_global_metadata
\* ------------------------------------------------------------------------

MaxAttrs == 2

\* Names of global attributes, in the order the source file holds them
attribute_names == <<"title", "history", "institution">>

AttrNames ==
    {attribute_names[i] : i \in 1..(IF MaxAttrs < 3 THEN MaxAttrs ELSE 3)}

\* An attribute's name is the sequence of its parts: <<"title">>, and
\* <<"pref", "__", "title">> for pref__title.

\* "{}__".format(prefix) if prefix else ""
pre_of(a_prefix) == IF a_prefix # <<>> THEN a_prefix \o <<"__">> ELSE <<>>

\* type(dest) == 'dict': a type is never equal to a string
testing(a_dest) == FALSE

\* dest.__dict__: the attributes of a netCDF dataset, nothing for an
\* OrderedDict whatever it holds, and no such attribute for a dict
dest__dict__(a_dest) ==
    IF a_dest.kind = "Dataset"
    THEN [raised |-> "none", value |-> DOMAIN a_dest.attributes]
    ELSE IF a_dest.kind = "OrderedDict"
    THEN [raised |-> "none", value |-> {}]
    ELSE [raised |-> "AttributeError", value |-> {}]

\* dest.setncattr(name, value), which only a netCDF dataset has
setncattr(a_dest, name, value) ==
    IF a_dest.kind = "Dataset"
    THEN [raised |-> "none",
          dest |-> [a_dest EXCEPT !.attributes =
                      [n \in DOMAIN @ \union {name} |->
                          IF n = name THEN value ELSE @[n]]]]
    ELSE [raised |-> "AttributeError", dest |-> a_dest]

\* dest[name] = value
setitem(a_dest, name, value) ==
    [raised |-> "none",
     dest |-> [a_dest EXCEPT !.attributes =
                 [n \in DOMAIN @ \union {name} |->
                     IF n = name THEN value ELSE @[n]]]]

\* The loop over input.__dict__, from the i-th attribute of the source on
RECURSIVE copy_attributes(_, _, _, _, _)
copy_attributes(input, pre, attributes_list, a_dest, i) ==
    IF i > Len(attribute_names) THEN [raised |-> "none", dest |-> a_dest]
    ELSE IF attribute_names[i] \notin DOMAIN input
    THEN copy_attributes(input, pre, attributes_list, a_dest, i + 1)
    ELSE LET m == attribute_names[i]
             prefixed == pre \o <<m>>
             set == IF prefixed \in attributes_list
                    THEN [raised |-> "none", dest |-> a_dest]
                    ELSE IF testing(a_dest)
                    THEN setitem(a_dest, prefixed, input[m])
                    ELSE setncattr(a_dest, prefixed, input[m])
         IN  IF set.raised # "none" THEN set
             ELSE copy_attributes(input, pre, attributes_list, set.dest, i + 1)

copy_global_metadata(input, a_prefix, a_dest) ==
    LET attributes_list ==
            IF testing(a_dest)
            THEN [raised |-> "none", value |-> DOMAIN a_dest.attributes]
            ELSE dest__dict__(a_dest)
    IN  IF attributes_list.raised # "none"
        THEN [raised |-> attributes_list.raised, dest |-> a_dest]
        ELSE copy_attributes(input, pre_of(a_prefix), attributes_list.value,
                             a_dest, 1)

\* The names a destination may hold: the source's names, bare and prefixed
dest_names == {<<n>> : n \in AttrNames} \union {<<"pref", "__", n>> : n \in AttrNames}

InitCopy ==
    /\ md_file \in UNION {[names -> {"of the source"}] : names \in SUBSET AttrNames}
    /\ md_prefix \in {<<>>, <<"pref">>}
    /\ dest \in [kind : {"Dataset", "dict", "OrderedDict"},
                  attributes : UNION {[names -> {"of the destination"}] :
                                         names \in SUBSET dest_names}]
    /\ dest_before = dest
    /\ copy_pc = "called"
    /\ generate_climos_idle
    /\ flow_idle
    /\ update_idle
    /\ guess_idle
    /\ prsn_idle
    /\ times_idle
    /\ attrs_idle

copy_only == UNCHANGED <<vars, script_vars, flow_vars, update_vars,
    guess_vars, prsn_vars, times_vars, attrs_vars>>

CopyGlobalMetadata ==
    /\ copy_pc = "called"
    /\ LET result == copy_global_metadata(md_file, md_prefix, dest)
       IN /\ dest' = result.dest
          /\ copy_pc' = IF result.raised = "none" THEN "returned" ELSE result.raised
    /\ UNCHANGED <<md_file, md_prefix, dest_before>>
    /\ copy_only

NextCopy == CopyGlobalMetadata

SpecCopy == InitCopy /\ [][NextCopy]_all_vars

\* ------------------------------------------------------------------------
\* format_dsg_timeseries: guess_id_variable
\* ------------------------------------------------------------------------

MaxIdVars == 2

\* guess_dim_type for the dimensions used here
guess_dim_type(dim) ==
    CASE dim = "time" -> "T"
      [] dim = "nc_chars" -> "text"
      [] dim = "outlets" -> "I"
      [] OTHER -> "None"

\* nc.variables[var]
nc_variable(a_nc, var) ==
    a_nc[CHOOSE i \in 1..Len(a_nc) : a_nc[i].name = var]

\* The names of nc.variables in their order
nc_names(a_nc) == [i \in 1..Len(a_nc) |-> a_nc[i].name]

\* True if the variable has only the instance dimension and text dimensions
is_instance_variable(a_nc, var, an_instance_dim) ==
    \A i \in 1..Len(nc_variable(a_nc, var).dimensions) :
        LET d == nc_variable(a_nc, var).dimensions[i]
        IN  ~(d # an_instance_dim /\ guess_dim_type(d) # "text")

\* is_id_variable with any cf_role but timeseries_id passed over
is_id_variable_lenient(a_nc, an_instance_dim, var) ==
    LET v == nc_variable(a_nc, var) IN
    IF v.cf_role # "" /\ is_instance_variable(a_nc, v.name, an_instance_dim)
    THEN [raised |-> FALSE, value |-> v.cf_role = "timeseries_id"]
    ELSE [raised |-> FALSE, value |-> FALSE]

\* The predicate is_id_variable: its value, or that it raised ("This process
\* is only for timeseries datasets"); cf_role "" is no cf_role attribute
is_id_variable(a_nc, an_instance_dim, var) ==
    LET v == nc_variable(a_nc, var) IN
    IF v.cf_role # "" /\ is_instance_variable(a_nc, v.name, an_instance_dim)
    THEN IF v.cf_role = "timeseries_id"
         THEN [raised |-> FALSE, value |-> TRUE]
         ELSE [raised |-> TRUE, value |-> FALSE]
    ELSE [raised |-> FALSE, value |-> FALSE]

\* The predicate check_instance_variable
check_instance_variable(a_nc, an_instance_dim, var) ==
    [raised |-> FALSE,
     value |-> is_instance_variable(a_nc, var, an_instance_dim)]

\* find_singular_item: what it returns, a single item (items of length 1,
\* is_list FALSE) or the list of candidates, or that it raised
find_singular_item(list, predicate(_), exception) ==
    LET candidates == SelectSeq(list, LAMBDA c : predicate(c).value) IN
    IF \E i \in 1..Len(list) : predicate(list[i]).raised
    THEN [raised |-> TRUE, is_list |-> FALSE, items |-> <<>>]
    ELSE IF Len(candidates) = 1
    THEN [raised |-> FALSE, is_list |-> FALSE, items |-> candidates]
    ELSE IF exception
    THEN [raised |-> TRUE, is_list |-> FALSE, items |-> <<>>]
    ELSE [raised |-> FALSE, is_list |-> TRUE, items |-> candidates]

\* listify(x): x if x is a list, else [x]
listify(x) == x.items

guess_id_variable(a_nc, an_instance_dim) ==
    LET found == find_singular_item(nc_names(a_nc),
                     LAMBDA var : is_id_variable(a_nc, an_instance_dim, var),
                     FALSE)
        variables == listify(found)
        single == find_singular_item(nc_names(a_nc),
                     LAMBDA var : check_instance_variable(a_nc, an_instance_dim, var),
                     TRUE)
    IN  IF found.raised THEN [raised |-> TRUE, value |-> ""]
        ELSE IF Len(variables) = 0
        THEN (IF single.raised THEN [raised |-> TRUE, value |-> ""]
              ELSE [raised |-> FALSE, value |-> single.items[1]])
        ELSE IF Len(variables) = 1
        THEN [raised |-> FALSE, value |-> variables[1]]
        ELSE [raised |-> TRUE, value |-> ""]

\* Names of the variables of a file, in the order it holds them
id_variable_names == <<"outlet_number", "outlet_name", "hours">>

\* Files of up to MaxIdVars variables, each on the instance dimension, on it
\* and a text dimension, or on time, with or without a cf_role
id_datasets ==
    UNION { { [i \in 1..n |-> [name |-> id_variable_names[i],
                               dimensions |-> d[i], cf_role |-> r[i]]] :
                d \in [1..n -> {<<"outlets">>, <<"outlets", "nc_chars">>, <<"time">>}],
                r \in [1..n -> {"", "timeseries_id", "profile_id"}] } :
            n \in 0..(IF MaxIdVars < 3 THEN MaxIdVars ELSE 3) }

InitGuess ==
    /\ nc \in id_datasets
    /\ instance_dim = "outlets"
    /\ id_var = ""
    /\ guess_pc = "called"
    /\ generate_climos_idle
    /\ flow_idle
    /\ update_idle
    /\ copy_idle
    /\ prsn_idle
    /\ times_idle
    /\ attrs_idle

guess_only == UNCHANGED <<vars, script_vars, flow_vars, update_vars,
    copy_vars, prsn_vars, times_vars, attrs_vars>>

GuessIdVariable ==
    /\ guess_pc = "called"
    /\ LET result == guess_id_variable(nc, instance_dim)
       IN  /\ id_var' = result.value
           /\ guess_pc' = IF result.raised THEN "Exception" ELSE "returned"
    /\ UNCHANGED <<nc, instance_dim>>
    /\ guess_only

NextGuess == GuessIdVariable

SpecGuess == InitGuess /\ [][NextGuess]_all_vars

\* ------------------------------------------------------------------------
\* generate_prsn: chunk_generator, matching_temperature_units and
\* process_to_prsn
\* ------------------------------------------------------------------------

MaxLen == 250

\* size = 100
chunk_size == 100

\* chunk_generator(max_len) up to its loop
chunk_generator(max_len) ==
    [size |-> IF chunk_size > max_len THEN max_len ELSE chunk_size,
     start |-> 0, end |-> chunk_size, max_len |-> max_len]

\* One turn of the generator's loop: the pair yielded and the generator as
\* it resumes, or the end of the iteration
next_chunk(g) ==
    IF g.start < g.max_len
    THEN LET end == IF g.end > g.max_len THEN g.max_len ELSE g.end
         IN  [stop |-> FALSE, chunk |-> <<g.start, end>>,
              gen |-> [g EXCEPT !.start = end, !.end = end + g.size]]
    ELSE [stop |-> TRUE, chunk |-> <<>>, gen |-> g]

\* ureg.parse_units for the temperature units used here
parse_units(units) ==
    CASE units \in {"K", "kelvin"} -> "kelvin"
      [] units \in {"degC", "celsius"} -> "degree_Celsius"
      [] OTHER -> units

\* is_unique_value of two parsed units
is_unique_value(values) == Cardinality(Range(values)) = 1

\* The name converted_var, to which the loop assigns a slice, is bound
\* nowhere in generate_prsn.py
converted_var_bound == FALSE

\* The for loop of matching_temperature_units from generator g on: the
\* array converted_tasmax afterwards, or the exception raised.  The
\* converted slice is assigned to converted_var[start:end], which raises
\* NameError, and the bare except raises in its place; no statement writes
\* to converted_tasmax.
RECURSIVE convert_chunks(_, _)
convert_chunks(g, converted_tasmax) ==
    IF next_chunk(g).stop
    THEN [raised |-> "none", value |-> converted_tasmax]
    ELSE IF ~converted_var_bound
    THEN [raised |-> "Error occured while converting units",
          value |-> converted_tasmax]
    ELSE convert_chunks(next_chunk(g).gen, converted_tasmax)

matching_temperature_units(a_tasmin, a_tasmax) ==
    LET min_units == parse_units(a_tasmin.units)
        max_units == parse_units(a_tasmax.units)
        zeros == [i \in 1..Len(a_tasmax.data) |-> 0]
    IN  IF ~is_unique_value(<<min_units, max_units>>)
        THEN LET r == convert_chunks(chunk_generator(Len(a_tasmax.data)),
                                      zeros)
             IN  [raised |-> r.raised,
                  value |-> [units |-> "", data |-> r.value]]
        ELSE [raised |-> "none", value |-> a_tasmax]

\* Temperature series of a given length, in hundredths of a degree
temperatures(n, first) == [i \in 1..n |-> first + i]

InitPrsn ==
    /\ \E n \in 0..MaxLen :
          /\ tasmin \in {[units |-> u, data |-> temperatures(n, 0)] :
                            u \in {"K", "degC"}}
          /\ tasmax \in {[units |-> u, data |-> temperatures(n, 500)] :
                            u \in {"K", "kelvin", "degC"}}
    /\ tasmax_read = tasmax
    /\ chunks = [size |-> 0, start |-> 0, end |-> 0, max_len |-> 0]
    /\ prsn_writes = <<>>
    /\ prsn_pc = "units"
    /\ generate_climos_idle
    /\ flow_idle
    /\ update_idle
    /\ copy_idle
    /\ guess_idle
    /\ times_idle
    /\ attrs_idle

prsn_only == UNCHANGED <<vars, script_vars, flow_vars, update_vars,
    copy_vars, guess_vars, times_vars, attrs_vars>>

\* tasmax_variable = matching_temperature_units(tasmin_variable, tasmax_variable)
MatchTemperatureUnits ==
    /\ prsn_pc = "units"
    /\ LET r == matching_temperature_units(tasmin, tasmax)
       IN  IF r.raised = "none"
           THEN tasmax' = r.value /\ prsn_pc' = "process"
           ELSE \* the exception leaves generate_prsn_file before the assignment
                tasmax' = tasmax /\ prsn_pc' = "Exception"
    /\ UNCHANGED <<tasmin, tasmax_read, chunks, prsn_writes>>
    /\ prsn_only

\* process_to_prsn is called: its loop starts the generator on len(pr),
\* which is the length of the temperature series
CallProcessToPrsn ==
    /\ prsn_pc = "process"
    /\ chunks' = chunk_generator(Len(tasmin.data))
    /\ prsn_pc' = "loop"
    /\ UNCHANGED <<tasmin, tasmax, tasmax_read, prsn_writes>>
    /\ prsn_only

\* determine_freezing: Q_(0.0, ureg.degC) whatever the unit, since the
\* result of freezing.to(temp_unit) is dropped
determine_freezing(unit) == [magnitude |-> 0, units |-> "degC"]

\* means < freezing: an array of numbers against a quantity in degC.  What
\* the comparison does is pint's, of which setup.py requires no version:
\* it compares the numbers with the magnitude, or it raises one of the
\* exceptions a pint can raise here
means_below_freezing(means, freezing) ==
    IF freezing.units = "degC"
    THEN {"compared", "ValueError", "TypeError", "DimensionalityError"}
    ELSE {"compared"}

\* The generator suspended at its yield: end is clipped, and start = end,
\* end += size are not run before the generator is resumed
suspended_at_yield(g) ==
    [g EXCEPT !.end = IF g.end > g.max_len THEN g.max_len ELSE g.end]

\* One turn of process_to_prsn's loop: the generator yields the next range
\* and the mean temperatures are compared with freezing.  When the
\* comparison returns, prsn[start:end] is written and the generator is
\* resumed; when it raises, nothing is written and the generator stays at
\* its yield
ProcessChunk ==
    /\ prsn_pc = "loop"
    /\ ~next_chunk(chunks).stop
    /\ \E outcome \in means_below_freezing(tasmin.data,
                                           determine_freezing(tasmin.units)) :
          IF outcome = "compared"
          THEN /\ prsn_writes' = Append(prsn_writes, next_chunk(chunks).chunk)
               /\ chunks' = next_chunk(chunks).gen
               /\ prsn_pc' = prsn_pc
          ELSE /\ prsn_writes' = prsn_writes
               /\ chunks' = suspended_at_yield(chunks)
               /\ prsn_pc' = outcome
    /\ UNCHANGED <<tasmin, tasmax, tasmax_read>>
    /\ prsn_only

\* The generator is exhausted and process_to_prsn returns
ProcessToPrsnReturns ==
    /\ prsn_pc = "loop"
    /\ next_chunk(chunks).stop
    /\ prsn_pc' = "done"
    /\ UNCHANGED <<tasmin, tasmax, tasmax_read, chunks, prsn_writes>>
    /\ prsn_only

NextPrsn ==
    \/ MatchTemperatureUnits
    \/ CallProcessToPrsn
    \/ ProcessChunk
    \/ ProcessToPrsnReturns

\* The script is one thread that runs until it returns or raises
SpecPrsn == InitPrsn /\ [][NextPrsn]_all_vars /\ WF_all_vars(NextPrsn)

\* ------------------------------------------------------------------------
\* generate_climos: generate_climo_time_var with its dates
\* ------------------------------------------------------------------------

\* A datetime at midnight is <<year, month, day>>.

days_in_year(y) ==
    IF (y % 4 = 0 /\ y % 100 # 0) \/ y % 400 = 0 THEN 366 ELSE 365

RECURSIVE days_of_years(_, _)
days_of_years(first, last) ==
    IF first > last THEN 0 ELSE days_in_year(first) + days_of_years(first + 1, last)

\* The year of January 1 of year y plus a number of days
RECURSIVE year_after(_, _)
year_after(y, days) ==
    IF days < days_in_year(y) THEN y ELSE year_after(y + 1, days - days_in_year(y))

\* (t_start + (t_end - t_start) / 2).year + 1, for a period from a January 1
\* to a day of December
middle_year(a_start, an_end) ==
    LET days == days_of_years(a_start[1], an_end[1]) - 1 - (31 - an_end[3])
    IN  year_after(a_start[1], days \div 2) + 1

\* datetime(year, month, 1) + relativedelta(months=n), for n from -1 to 2
add_months(year, month, n) ==
    IF month + n > 12 THEN <<year + 1, month + n - 12, 1>>
    ELSE IF month + n < 1 THEN <<year - 1, month + n + 12, 1>>
    ELSE <<year, month + n, 1>>

\* Center months of the seasons
season_months == <<1, 4, 7, 10>>

\* generate_climo_time_var(t_start, t_end, types) with its dates
generate_climo_time_var_dates(a_start, an_end, types) ==
    LET year == middle_year(a_start, an_end)
        monthly_times == [month \in 1..12 |-> <<year, month, 15>>]
        monthly_bounds == [month \in 1..12 |->
            <<<<a_start[1], month, 1>>, add_months(an_end[1], month, 1)>>]
        seasonal_times == [i \in 1..4 |-> <<year, season_months[i], 16>>]
        seasonal_bounds == [i \in 1..4 |->
            <<add_months(a_start[1], season_months[i], -1),
              add_months(an_end[1], season_months[i], 2)>>]
        annual_times == <<<<year, 7, 2>>>>
        annual_bounds == <<<<<<a_start[1], 1, 1>>, <<an_end[1] + 1, 1, 1>>>>>>
    IN  [times |->
            (IF "monthly" \in types THEN monthly_times ELSE <<>>)
            \o (IF "seasonal" \in types THEN seasonal_times ELSE <<>>)
            \o (IF "annual" \in types THEN annual_times ELSE <<>>),
         climo_bounds |->
            (IF "monthly" \in types THEN monthly_bounds ELSE <<>>)
            \o (IF "seasonal" \in types THEN seasonal_bounds ELSE <<>>)
            \o (IF "annual" \in types THEN annual_bounds ELSE <<>>)]

\* Periods from January 1 of a year to December 30 or 31 of a later year
climo_periods ==
    { <<<<p[1], 1, 1>>, <<p[2], 12, d>>>> :
        p \in { <<1960, 1970>>, <<1961, 1990>>, <<1965, 1970>>, <<1971, 2000>>,
                <<1981, 2010>>, <<1984, 1995>>, <<2010, 2039>> },
        d \in {30, 31} }

InitTimes ==
    /\ \E p \in climo_periods : t_start = p[1] /\ t_end = p[2]
    /\ time_types \in SUBSET {"monthly", "seasonal", "annual"}
    /\ times = <<>>
    /\ climo_bounds = <<>>
    /\ times_pc = "called"
    /\ generate_climos_idle
    /\ flow_idle
    /\ update_idle
    /\ copy_idle
    /\ guess_idle
    /\ prsn_idle
    /\ attrs_idle

times_only == UNCHANGED <<vars, script_vars, flow_vars, update_vars,
    copy_vars, guess_vars, prsn_vars, attrs_vars>>

GenerateClimoTimeVar ==
    /\ times_pc = "called"
    /\ LET r == generate_climo_time_var_dates(t_start, t_end, time_types)
       IN  times' = r.times /\ climo_bounds' = r.climo_bounds
    /\ times_pc' = "returned"
    /\ UNCHANGED <<t_start, t_end, time_types>>
    /\ times_only

NextTimes == GenerateClimoTimeVar

SpecTimes == InitTimes /\ [][NextTimes]_all_vars

\* ------------------------------------------------------------------------
\* update_metadata: the attribute updates of one target
\* ------------------------------------------------------------------------

\* A target is the function from the names of its attributes to their
\* values.  The value None of an update is NoValue, which is no string.

MaxAttrUpdates == 2

NoValue == <<"None", "None">>

hasattr(target, name) == Len(name) = 1 /\ name[1] \in DOMAIN target

setattr(target, name, value) ==
    [n \in DOMAIN target \union {name} |-> IF n = name THEN value ELSE target[n]]

delattr(target, name) == [n \in DOMAIN target \ {name} |-> target[n]]

delete_attribute(target, name) ==
    IF hasattr(target, <<name>>) THEN delattr(target, name) ELSE target

rename_attribute(ds, target, name, old_name) ==
    LET old == evaluate_string(ds, old_name) IN
    IF old.raised # "none"
    THEN [raised |-> old.raised, target |-> target]
    ELSE IF hasattr(target, old.value)
    THEN [raised |-> "none",
          target |-> delattr(setattr(target, name, target[old.value[1]]),
                             old.value[1])]
    ELSE [raised |-> "none", target |-> target]

\* Mutant of set_attribute_from_expression: the exception of the evaluation
\* is not caught
set_attribute_from_expression_unguarded(ds, target, name, expression) ==
    LET result == evaluate_expression(ds, expression) IN
    IF result.raised # "none"
    THEN [raised |-> result.raised, target |-> target]
    ELSE [raised |-> "none", target |-> setattr(target, name, result.value)]

\* try: result = evaluate_expression(...); setattr(...)
\* except Exception as e: logger.error(...)
set_attribute_from_expression(ds, target, name, expression) ==
    LET result == evaluate_expression(ds, expression) IN
    IF result.raised # "none"
    THEN [raised |-> "none", target |-> target]
    ELSE [raised |-> "none", target |-> setattr(target, name, result.value)]

set_attribute(target, name, value) ==
    [raised |-> "none", target |-> setattr(target, name, value)]

modify_attribute(ds, target, name, value) ==
    IF value = NoValue
    THEN [raised |-> "none", target |-> delete_attribute(target, name)]
    ELSE IF is_rename(value)
    THEN rename_attribute(ds, target, name, strip_rename_prefix(value))
    ELSE IF is_expression(value)
    THEN set_attribute_from_expression(ds, target, name,
                                       strip_expression_prefix(value))
    ELSE set_attribute(target, name, value)

\* Names of attributes, and values of attribute updates
attr_names == {"a", "b", "c"}

attr_values ==
    { NoValue, <<"<-", "a">>, <<"<-", " ", "b">>, <<"<-", "c">>,
      <<"<-", "=", "undefined">>, <<"=", "a">>, <<"=", "undefined">>,
      <<"=", "'", "x", "'">>, <<"x">> }

\* Datasets with a dependent variable or none, and some of the global
\* attributes a and b; an attribute's value at first is its name
attr_datasets ==
    { [variables |-> [n \in vs |-> n], attributes |-> [n \in as |-> <<n>>]] :
        vs \in SUBSET {"var1"}, as \in SUBSET {"a", "b"} }

\* A dict of attribute updates: its keys are distinct
attr_dicts ==
    { u \in UNION { [1..n -> [name : attr_names, value : attr_values]] :
                        n \in 1..MaxAttrUpdates } :
        \A i, j \in DOMAIN u : i # j => u[i].name # u[j].name }

InitAttrs ==
    /\ attr_dataset \in attr_datasets
    /\ attr_updates \in attr_dicts
    /\ attr_index = 0
    /\ attr_error = "none"
    /\ attr_before = attr_dataset
    /\ generate_climos_idle
    /\ flow_idle
    /\ update_idle
    /\ copy_idle
    /\ guess_idle
    /\ prsn_idle
    /\ times_idle

attrs_only == UNCHANGED <<vars, script_vars, flow_vars, update_vars,
    copy_vars, guess_vars, prsn_vars, times_vars>>

\* apply_attribute_updates(dataset, dataset, update) for a dict: one
\* element of "for element in attr_updates.items()"
ApplyAttributeUpdate ==
    /\ attr_error = "none"
    /\ attr_index < Len(attr_updates)
    /\ LET element == attr_updates[attr_index + 1]
           result == modify_attribute(attr_dataset, attr_dataset.attributes,
                                      element.name, element.value)
       IN /\ attr_before' = attr_dataset
          /\ attr_dataset' = [attr_dataset EXCEPT !.attributes = result.target]
          /\ attr_error' = result.raised
    /\ attr_index' = attr_index + 1
    /\ UNCHANGED attr_updates
    /\ attrs_only

NextAttrs == ApplyAttributeUpdate

SpecAttrs == InitAttrs /\ [][NextAttrs]_all_vars

\* ------------------------------------------------------------------------
\* Type invariant
\* ------------------------------------------------------------------------

TypeOK ==
    /\ pc \in {"start", "validate", "classify", "seldate", "history_start",
               "climo", "climo_aggregates", "concat", "longitudes", "flux",
               "metadata", "split", "history_end", "move", "done", "failed"}
    /\ var_type \in Categories \union {""}
    /\ temporal_subset \in 0..Len(tmp)
    /\ \A i \in 1..Len(climo_files) : climo_files[i] \in 1..Len(tmp)
    /\ \A i \in 1..Len(cdo_log) : cdo_log[i].output \in 1..Len(tmp)
    /\ warnings \in Nat
    /\ (error = "none") = (pc # "failed")

\* ------------------------------------------------------------------------
\* Vocabulary of the properties (stated apart from the code's tables)
\* ------------------------------------------------------------------------

native == input_file.time_resolution

varnames == input_file.dependent_varnames

\* The combining statistic each category calls for
CategoryOperator == [count |-> "sum", maximum |-> "max", minimum |-> "min"]

\* cdo operator prefixes by target resolution
CombinePrefix == [monthly |-> "mon", seasonal |-> "seas", yearly |-> "year"]
ClimoPrefix == [monthly |-> "ymon", seasonal |-> "yseas", yearly |-> "tim"]

OutputResolutions == {"monthly", "seasonal", "yearly"}

Coarser(r, than) == timeres_ordinality[r] > timeres_ordinality[than]
Finer(r, than) == timeres_ordinality[r] < timeres_ordinality[than]

Requested == Range(output_resolutions)

IsClimoCall(c) == c.op[2] \in supported_operations
IsCombineCall(c) == c.op[2] \in {"sum", "max", "min", "mean", "std"}
                        /\ c.op[1] \in {"mon", "seas", "year"}

\* The cdo call that made temporary file id
MadeBy(id) == CHOOSE k \in 1..Len(cdo_log) : cdo_log[k].output = id

\* Positions in the body of create_climo_files
AfterChecks == {"seldate", "history_start", "climo", "climo_aggregates", "concat",
                "longitudes", "flux", "metadata", "split", "history_end",
                "move", "done"}
AfterClimo == {"concat", "longitudes", "flux", "metadata", "split",
               "history_end", "move", "done"}

AggregatedCategories == {"count", "maximum", "minimum"}

\* ------------------------------------------------------------------------
\* C1
\* ------------------------------------------------------------------------

\* C1: in a count, maximum or minimum file, every dataset generate_aggregates
\* holds at a resolution coarser than native was made from the temporal subset
\* by the category's own combining operator (sum, max, min) for that
\* resolution, never by a mean/std operator; and every mean/std call comes
\* after all combining calls and reads one of the datasets of aggregations.
C1_AggregatesUseCategoryOperator ==
    var_type \in AggregatedCategories =>
        /\ \A i \in 1..Len(aggregations) :
              LET a == aggregations[i] IN
              Coarser(a.res, native) =>
                  /\ a.data # temporal_subset
                  /\ cdo_log[MadeBy(a.data)].op =
                         <<CombinePrefix[a.res], CategoryOperator[var_type]>>
                  /\ cdo_log[MadeBy(a.data)].input = <<temporal_subset>>
        /\ \A k \in 1..Len(cdo_log) :
              IsClimoCall(cdo_log[k]) =>
                  /\ cdo_log[k].op[1] \in {"ymon", "yseas", "tim"}
                  /\ \A j \in 1..Len(cdo_log) : IsCombineCall(cdo_log[j]) => j < k
                  /\ \E i \in 1..Len(aggregations) :
                         cdo_log[k].input = <<aggregations[i].data>>

\* a daily count file whose three climatologies were formed
C1_Witness ==
    /\ pc = "done" /\ var_type = "count" /\ native = "daily"
    /\ Len(aggregations) = 3
    /\ Cardinality(outdir) = 3

\* ------------------------------------------------------------------------
\* C2
\* ------------------------------------------------------------------------

\* C2: every name of the table has one of the five categories; and a call on
\* a file that is not already a climatology, with a supported operation, and
\* with a dependent variable that is not in the table fails with the
\* unsupported-variable error, which names the first such variable of the file.
C2_ClassificationTotalOrUnsupported ==
    /\ \A name \in DOMAIN variable_types : variable_types[name] \in Categories
    /\ (/\ \E v \in Range(varnames) : v \notin DOMAIN variable_types
        /\ ~input_file.is_multi_year
        /\ operation \in supported_operations
        /\ pc \notin {"start", "validate", "classify"})
       => /\ pc = "failed"
          /\ error = "Unsupported variable: can't yet process"
          /\ \E i \in 1..Len(varnames) :
                /\ varnames[i] = error_arg
                /\ error_arg \notin DOMAIN variable_types
                /\ \A j \in 1..(i - 1) : varnames[j] \in DOMAIN variable_types

\* a file with a known and an unknown variable was rejected
C2_Witness ==
    /\ pc = "failed"
    /\ varnames = <<"tasmax", "foo">>
    /\ error = "Unsupported variable: can't yet process"
    /\ error_arg = "foo"

\* ------------------------------------------------------------------------
\* C3
\* ------------------------------------------------------------------------

AllOfCategory(c) ==
    /\ varnames # <<>>
    /\ \A v \in Range(varnames) : v \in DOMAIN variable_types /\ variable_types[v] = c

\* C3: once the variables of a file are classified (all of them are in the
\* table), the file's category is the single category they share; an empty
\* set of variables, or variables of two or more categories, fail with the
\* one-type-only (mixed categories) error.
C3_SingleCategoryOrMixedError ==
    (/\ \A v \in Range(varnames) : v \in DOMAIN variable_types
     /\ ~input_file.is_multi_year
     /\ operation \in supported_operations
     /\ pc \notin {"start", "validate", "classify"})
    => /\ \A c \in Categories : AllOfCategory(c) =>
              /\ var_type = c
              /\ error # "Only one type of variable allowed per file"
       /\ (~\E c \in Categories : AllOfCategory(c)) =>
              /\ pc = "failed"
              /\ error = "Only one type of variable allowed per file"
       /\ (varnames = <<"tasmax", "pr">> => var_type = "point")

\* a count and a point variable in one file were rejected
C3_Witness ==
    /\ pc = "failed"
    /\ varnames = <<"prcptotETCCDI", "tasmax">>
    /\ error = "Only one type of variable allowed per file"

\* ------------------------------------------------------------------------
\* C4
\* ------------------------------------------------------------------------

\* C4 as stated: a duration file for which a resolution strictly coarser than
\* native is requested never gets past forming its climatologies: the run fails.
C4_CoarserDurationRequestFails ==
    (/\ var_type = "duration"
     /\ \E r \in Requested : Coarser(r, native)
     /\ pc \notin {"seldate", "history_start", "climo"})
    => pc = "failed"

\* What the code does instead: in a duration file a requested resolution
\* coarser than native is never produced and is no error of its own.  The
\* run fails, with the non-aggregated-daily exception, exactly when the
\* native resolution is
\* daily, whatever is requested; for a monthly, seasonal or yearly file no
\* exception is raised, the native resolution is produced when it is requested,
\* and when it is not, the result is empty and the warning is issued once.
C4_CoarserDurationRequestDropped ==
    (var_type = "duration" /\ pc \notin {"seldate", "history_start", "climo"})
    => /\ (native = "daily") = (pc = "failed")
       /\ native = "daily" =>
              error = "Cannot generate non-aggregated climatologies from a daily dataset"
       /\ native # "daily" =>
              /\ error = "none"
              /\ \A k \in 1..Len(cdo_log) :
                     IsClimoCall(cdo_log[k]) => cdo_log[k].op[1] = ClimoPrefix[native]
              /\ native \in Requested => climo_files # <<>> /\ warnings = 0
              /\ native \notin Requested => climo_files = <<>> /\ warnings = 1
              /\ pc = "concat" =>
                     Len(climo_files) = (IF native \in Requested THEN 1 ELSE 0)
              /\ pc = "done" => (output_file_paths = <<>>) = (native \notin Requested)

\* a seasonal duration file asked for yearly only: finished, nothing produced
C4_Witness ==
    /\ var_type = "duration" /\ native = "seasonal"
    /\ output_resolutions = <<"yearly">>
    /\ pc = "done" /\ error = "none"
    /\ warnings = 1 /\ output_file_paths = <<>> /\ outdir = {}

\* ------------------------------------------------------------------------
\* C5
\* ------------------------------------------------------------------------

\* C5: in a duration file no combining call is ever made; every
\* climatological call applies the operator of the native resolution, with
\* the requested statistic, to the temporal subset; every climatology in
\* climo_files and in the output directory holds the native interval only;
\* and a seasonal file asked for seasonal only gives exactly one, seasonal.
C5_DurationOnlyNativeDirect ==
    var_type = "duration" =>
        /\ \A k \in 1..Len(cdo_log) :
              /\ ~IsCombineCall(cdo_log[k])
              /\ IsClimoCall(cdo_log[k]) =>
                     /\ native # "daily"
                     /\ cdo_log[k].op = <<ClimoPrefix[native], operation>>
                     /\ cdo_log[k].input = <<temporal_subset>>
        /\ \A i \in 1..Len(climo_files) : tmp[climo_files[i]].intervals = <<native>>
        /\ \A f \in outdir : f.data.intervals = <<native>>
        /\ (native = "seasonal" /\ Requested = {"seasonal"} /\ pc \in AfterClimo) =>
              /\ Len(climo_files) = 1
              /\ tmp[climo_files[1]].intervals = <<"seasonal">>
              /\ Cardinality({k \in 1..Len(cdo_log) : IsClimoCall(cdo_log[k])}) = 1

\* a seasonal duration file asked for seasonal only: one output file
C5_Witness ==
    /\ var_type = "duration" /\ native = "seasonal"
    /\ output_resolutions = <<"seasonal">>
    /\ pc = "done"
    /\ Cardinality(outdir) = 1
    /\ \A f \in outdir : f.data.intervals = <<"seasonal">>

\* ------------------------------------------------------------------------
\* C6
\* ------------------------------------------------------------------------

\* Requested resolutions that are output resolutions and not finer than native
Producible == {r \in Requested \cap OutputResolutions : ~Finer(r, native)}

\* C6: when the climatologies of a point file have been formed, climo_files
\* holds exactly one file for each producible requested resolution, each made
\* by that resolution's climatological operator with the requested statistic
\* applied to the temporal subset, and no combining call was made.
C6_PointPlanDirect ==
    (var_type = "point" /\ pc = "concat") =>
        /\ Len(climo_files) = Cardinality(Producible)
        /\ \A r \in Producible :
              Cardinality({i \in 1..Len(climo_files) :
                              tmp[climo_files[i]].intervals = <<r>>}) = 1
        /\ \A i \in 1..Len(climo_files) :
              LET c == cdo_log[MadeBy(climo_files[i])] IN
              /\ \E r \in Producible :
                    /\ c.op = <<ClimoPrefix[r], operation>>
                    /\ tmp[climo_files[i]].intervals = <<r>>
              /\ c.input = <<temporal_subset>>
        /\ \A k \in 1..Len(cdo_log) : ~IsCombineCall(cdo_log[k])
        /\ (native = "daily" /\ Requested = OutputResolutions) => Len(climo_files) = 3

\* a daily point file asked for all three resolutions: three climatologies
C6_Witness ==
    /\ var_type = "point" /\ native = "daily"
    /\ Requested = {"monthly", "seasonal", "yearly"}
    /\ pc = "concat"
    /\ Len(climo_files) = 3

\* ------------------------------------------------------------------------
\* C7
\* ------------------------------------------------------------------------

\* C7: when the climatologies of a count, maximum or minimum file have been
\* formed, each file of climo_files holds one interval R and was made by R's
\* climatological operator from a dataset of time resolution R: the temporal
\* subset when R is native, otherwise the dataset the category's combining
\* operator for R made from the temporal subset.  For a daily count file asked
\* for yearly only there is one climatology and one climatological call: tim
\* on the output of yearsum.
C7_AggregatedPlanPerResolution ==
    (var_type \in AggregatedCategories /\ pc = "concat") =>
        /\ \A i \in 1..Len(climo_files) :
              LET c == cdo_log[MadeBy(climo_files[i])]
                  R == tmp[climo_files[i]].intervals[1]
                  src == c.input[1]
              IN  /\ Len(tmp[climo_files[i]].intervals) = 1
                  /\ R \in Producible
                  /\ c.op = <<ClimoPrefix[R], operation>>
                  /\ Len(c.input) = 1
                  /\ tmp[src].time_resolution = R
                  /\ R = native => src = temporal_subset
                  /\ R # native =>
                         /\ cdo_log[MadeBy(src)].op =
                                <<CombinePrefix[R], CategoryOperator[var_type]>>
                         /\ cdo_log[MadeBy(src)].input = <<temporal_subset>>
        /\ Len(climo_files) = Cardinality(Producible)
        /\ (var_type = "count" /\ native = "daily" /\ Requested = {"yearly"}) =>
              /\ Len(climo_files) = 1
              /\ Cardinality({k \in 1..Len(cdo_log) : IsClimoCall(cdo_log[k])}) = 1
              /\ cdo_log[MadeBy(climo_files[1])].op = <<"tim", operation>>
              /\ cdo_log[MadeBy(cdo_log[MadeBy(climo_files[1])].input[1])].op
                     = <<"year", "sum">>

\* a daily count file asked for yearly only: one climatology formed
C7_Witness ==
    /\ var_type = "count" /\ native = "daily"
    /\ output_resolutions = <<"yearly">>
    /\ pc = "concat"
    /\ Len(climo_files) = 1

\* ------------------------------------------------------------------------
\* C8
\* ------------------------------------------------------------------------

\* The requested collection without 'daily' and the resolutions finer than res
WithoutFiner(req, res) ==
    SelectSeq(req, LAMBDA r : r # "daily" /\ ~Finer(r, res))

\* What forming the climatologies of a file of the given category and
\* resolution gives for a request: the exception, the number of warnings, and
\* for each climatology its operator and the resolution of the dataset read.
PlanOutcome(category, res, op, req) ==
    IF category \in AggregatedCategories
    THEN LET entries == generate_aggregates(res, category)
             outs == [i \in 1..Len(entries) |->
                         climo_outputs(entries[i].res, op, FALSE, req)]
         IN  [error |-> "none",
              warned |-> SumSeq([i \in 1..Len(entries) |->
                                    IF outs[i].warned THEN 1 ELSE 0]),
              plan |-> Flatten([i \in 1..Len(entries) |->
                          [j \in 1..Len(outs[i].ops) |->
                              <<outs[i].ops[j], entries[i].res>>]])]
    ELSE LET out == climo_outputs(res, op, category = "point", req)
         IN  [error |-> out.error,
              warned |-> IF out.warned THEN 1 ELSE 0,
              plan |-> [j \in 1..Len(out.ops) |-> <<out.ops[j], res>>]]

\* The same, read off the state once the climatologies are formed
ActualOutcome ==
    [error |-> error,
     warned |-> warnings,
     plan |-> [i \in 1..Len(climo_files) |->
                  LET c == cdo_log[MadeBy(climo_files[i])]
                  IN  <<c.op, tmp[c.input[1]].time_resolution>>]]

\* C8: no climatology is formed at 'daily' or at a resolution finer than
\* native, a request for one raises nothing (the only exception of this step
\* is the one a daily duration file raises whatever is requested), and the
\* climatologies formed, their order and the warnings are those of the same
\* call with the finer resolutions and 'daily' removed from the request.
C8_FinerRequestsSilentlyDropped ==
    /\ pc = "concat" =>
          /\ \A i \in 1..Len(climo_files) :
                \A j \in 1..Len(tmp[climo_files[i]].intervals) :
                    LET r == tmp[climo_files[i]].intervals[j]
                    IN  r # "daily" /\ ~Finer(r, native)
          /\ ActualOutcome = PlanOutcome(var_type, native, operation,
                                 WithoutFiner(output_resolutions, native))
    /\ (pc = "failed" /\ var_type # "" /\ climo_files = <<>> /\ warnings = 0) =>
          /\ var_type = "duration" /\ native = "daily"
          /\ error = PlanOutcome(var_type, native, operation, <<>>).error

\* a seasonal point file asked for monthly and yearly: the yearly one is made
C8_Witness ==
    /\ var_type = "point" /\ native = "seasonal"
    /\ output_resolutions = <<"monthly", "yearly">>
    /\ pc = "done" /\ warnings = 0
    /\ Cardinality(outdir) = 1
    /\ \A f \in outdir : f.data.intervals = <<"yearly">>

\* ------------------------------------------------------------------------
\* C9
\* ------------------------------------------------------------------------

\* C9: for a point, count, maximum or minimum file with no producible
\* requested resolution, no exception is raised at any step, no climatology
\* is formed (no climatological cdo call), the warning is issued once the
\* climatology step has run, nothing is put in the output directory, and the
\* list returned is empty.
C9_NothingProducibleWarnsAndReturnsEmpty ==
    (var_type \in {"point"} \union AggregatedCategories /\ Producible = {}) =>
        /\ error = "none" /\ pc # "failed"
        /\ \A k \in 1..Len(cdo_log) : ~IsClimoCall(cdo_log[k])
        /\ climo_files = <<>>
        /\ pc \in AfterClimo => warnings >= 1
        /\ outdir = {}
        /\ output_file_paths = <<>>

\* a yearly count file asked for monthly: finished with a warning, no output
C9_Witness ==
    /\ var_type = "count" /\ native = "yearly"
    /\ output_resolutions = <<"monthly">>
    /\ pc = "done" /\ error = "none"
    /\ warnings = 1
    /\ output_file_paths = <<>> /\ outdir = {}

\* ------------------------------------------------------------------------
\* C10
\* ------------------------------------------------------------------------

\* C10: when create_climo_files has raised, whatever the exception, the
\* output directory holds what it held when the call started (nothing) and no
\* path has been returned; and files are put in the output directory by the
\* last step only, which raises nothing.
C10_FailureLeavesNoOutput ==
    /\ (pc = "failed" \/ error # "none") => outdir = {} /\ output_file_paths = <<>>
    /\ pc # "done" => outdir = {}

\* a daily duration file: the run fails after temporary files were made
C10_Witness ==
    /\ pc = "failed"
    /\ error = "Cannot generate non-aggregated climatologies from a daily dataset"
    /\ Len(tmp) >= 1
    /\ outdir = {}

\* ------------------------------------------------------------------------
\* C11: When the generate_climos script is given several input files and
\* create_climo_files raises for one of them, the batch is not aborted: once
\* the run has ended, generate_climos has been called and has returned for
\* every other input file.
\* main iterates over the paths without a try, so the exception ends the run
\* at the failing file and the paths after it are never opened.
\* ------------------------------------------------------------------------

ScriptEnded == script_pc \in {"returned", "exit_0", "traceback"}

C11_FatalFileDoesNotAbortBatch ==
    (ScriptEnded /\ ~dry_run /\ pc = "failed") =>
        \A i \in 1..Len(filepaths) : i # file_index => i \in returned

\* ------------------------------------------------------------------------
\* C13: In the history of every output file the first line is the
\* 'end: generate_climos' line, a 'start: generate_climos' line occurs later,
\* the lines between them are the lines of the external-tool steps, and the
\* lines after the start line are exactly the input file's original history
\* lines in their original order.
\* ------------------------------------------------------------------------

HistoryBracketsToolSteps(h) ==
    /\ Len(h) >= 2
    /\ h[1] = "end: generate_climos"
    /\ \E k \in 2..Len(h) :
          /\ h[k] = "start: generate_climos"
          /\ \A j \in 2..(k - 1) : h[j] = "cdo"
          /\ SubSeq(h, k + 1, Len(h)) = InputHistory

C13_HistoryStartEndAroundToolSteps ==
    \A f \in outdir : HistoryBracketsToolSteps(f.data.history)

\* An output file of a flux variable split from a concatenated file: made by
\* seldate, a climatological operator, copy, mulc and select
C13_Witness ==
    /\ pc = "done"
    /\ \E f \in outdir :
          /\ Len(f.data.history) >= 2 + 4 + Len(InputHistory)
          /\ HistoryBracketsToolSteps(f.data.history)

\* ------------------------------------------------------------------------
\* C15: create_climo_files never modifies the input file: the input dataset
\* stays as it was opened, and every in-place edit (history, longitudes,
\* time variable and metadata) is applied to a temporary file made by a cdo
\* call, for every category and native resolution, also when the temporal
\* subset of the native resolution is itself an aggregation source.
\* ------------------------------------------------------------------------

C15_InputFileNotModified ==
    /\ input_file = new_input_file(varnames, native, input_file.is_multi_year,
                                   input_file.flux)
    /\ \A k \in 1..Len(edits) :
          /\ edits[k].file # 0
          /\ \E c \in Range(cdo_log) : c.output = edits[k].file

\* A monthly count file: its temporal subset is the monthly aggregation source
\* and all kinds of edits were made
C15_Witness ==
    /\ pc = "done"
    /\ var_type = "count"
    /\ \E a \in Range(aggregations) : a.res = native /\ a.data = temporal_subset
    /\ {edits[k].what : k \in 1..Len(edits)} = {"history", "longitudes", "metadata"}
    /\ input_file.history = InputHistory

\* ------------------------------------------------------------------------
\* C12: For every processable input file, every combination of split_vars
\* and split_intervals and every requested set of resolutions,
\* create_climo_files returns exactly V x I output files, where V is the
\* number of dependent variables if split_vars else 1, k the number of
\* requested resolutions producible from the native resolution and
\* I = k if split_intervals else min(1, k); and the returned paths are exactly
\* the files of the output directory.
\* ------------------------------------------------------------------------

\* A file create_climo_files is specified to process: it passes the checks
\* and is not a daily file of a category that cannot be aggregated
Processable ==
    /\ passes_checks(input_file, operation)
    /\ ~(AllOfCategory("duration") /\ native = "daily")

\* Requested resolutions the file's category can give from its resolution
ProducibleForCategory ==
    IF AllOfCategory("duration") THEN Producible \cap {native} ELSE Producible

ExpectedFileCount ==
    LET V == IF split_vars THEN Len(varnames) ELSE 1
        k == Cardinality(ProducibleForCategory)
        I == IF split_intervals THEN k ELSE IF k < 1 THEN k ELSE 1
    IN  V * I

ReturnedFilesAsExpected ==
    /\ Len(output_file_paths) = ExpectedFileCount
    /\ Cardinality(outdir) = ExpectedFileCount
    /\ Range(output_file_paths) = {f.name : f \in outdir}

C12_ReturnsVTimesIFiles ==
    Processable =>
        /\ pc # "failed"
        /\ pc = "done" => ReturnedFilesAsExpected

\* C12, for the calls that return: whenever create_climo_files returns, it
\* returns V x I files and they are the files of the output directory.
C12_ReturnedFilesWhenReturning ==
    (Processable /\ pc = "done") => ReturnedFilesAsExpected

\* The call that does not return: a concatenated file of 12 + 1 time values
C12_RaisesOnThirteenTimeValues ==
    /\ Processable
    /\ ~split_intervals
    /\ Producible = {"monthly", "yearly"}
    /\ pc = "failed"
    /\ error = "Expected climo file to contain # time values in"
    /\ outdir = {}

\* ------------------------------------------------------------------------
\* C14
\* ------------------------------------------------------------------------

\* The frequency naming the climatologies over the resolutions in contained
FrequencyNaming(contained) ==
    (IF "monthly" \in contained THEN <<"m">> ELSE <<>>)
    \o (IF "seasonal" \in contained THEN <<"s">> ELSE <<>>)
    \o (IF "yearly" \in contained THEN <<"a">> ELSE <<>>)
    \o <<"Clim", IF operation = "mean" THEN "Mean" ELSE "SD">>

\* Output resolutions the file's category can give from its resolution
ProducibleFromNative ==
    IF AllOfCategory("duration") THEN OutputResolutions \cap {native}
    ELSE {r \in OutputResolutions : ~Finer(r, native)}

\* The frequency of every output file names exactly the intervals whose
\* climatologies the file contains, followed by 'Clim' and 'Mean' or 'SD'
FrequencyNamesContents ==
    \A f \in outdir :
        f.data.frequency = FrequencyNaming(Range(f.data.intervals))

\* C14 as stated: the frequency of each output file is the letters m, s, a
\* of exactly the intervals the file contains, then 'Clim', then 'Mean' or
\* 'SD'; with split_intervals each file names one interval, without it the
\* single file names all intervals producible from the native resolution.
C14_UnsplitFileNamesAllProducible ==
    /\ FrequencyNamesContents
    /\ \A f \in outdir :
          IF split_intervals
          THEN Cardinality(Range(f.data.intervals)) = 1
          ELSE Range(f.data.intervals) = ProducibleFromNative

\* C14 as the code has it: the frequency of each output file is the letters
\* m, s, a of exactly the intervals the file contains, then 'Clim', then
\* 'Mean' or 'SD'; with split_intervals each file names one interval, without
\* it the files (one per variable if split_vars) name all the requested
\* intervals producible from the native resolution.
C14_UnsplitFileNamesRequestedProducible ==
    /\ FrequencyNamesContents
    /\ \A f \in outdir :
          IF split_intervals
          THEN Cardinality(Range(f.data.intervals)) = 1
          ELSE Range(f.data.intervals) = ProducibleForCategory

\* A monthly file asked for seasonal and yearly, not split: 'saClimSD'
C14_Witness ==
    /\ pc = "done"
    /\ native = "monthly"
    /\ ~split_intervals
    /\ Requested = {"seasonal", "yearly"}
    /\ \E f \in outdir : f.data.frequency = <<"s", "a", "Clim", "SD">>

\* ------------------------------------------------------------------------
\* C19: When split_intervals is false, the per-interval climatology files
\* are concatenated in the order monthly, seasonal, annual, for every
\* category, native resolution and requested collection whatever its
\* iteration order, so that the time values and climatology bounds written
\* afterwards, which assume that order, label the records they belong to.
\* The code concatenates in the order climo_outputs and the loop over
\* aggregations return the files: the iteration order of the request for a
\* point file, the insertion order native, yearly, seasonal, monthly of the
\* aggregations for a count, maximum or minimum file.
\* ------------------------------------------------------------------------

\* generate_climo_time_var's name of the interval of each record block
IntervalLabel == [monthly |-> "monthly", seasonal |-> "seasonal", yearly |-> "annual"]

RecordLabels(ds) == [i \in 1..Len(ds.intervals) |-> IntervalLabel[ds.intervals[i]]]

C19_ConcatenatedInLabelOrder ==
    /\ \A k \in 1..Len(cdo_log) :
          cdo_log[k].op[1] = "copy" =>
              RecordLabels(tmp[cdo_log[k].output])
                  = generate_climo_time_var(Range(RecordLabels(tmp[cdo_log[k].output])))
    /\ \A f \in outdir : f.data.time_labels = RecordLabels(f.data)

\* A monthly count file, all three resolutions asked for, not split: the
\* output file holds monthly, annual, seasonal records in that order, with
\* the times and bounds of monthly, seasonal, annual
C19_MislabelledRecords ==
    /\ pc = "done"
    /\ var_type = "count" /\ native = "monthly"
    /\ ~split_intervals
    /\ Requested = {"monthly", "seasonal", "yearly"}
    /\ \E f \in outdir :
          /\ f.data.intervals = <<"monthly", "yearly", "seasonal">>
          /\ f.data.time_labels = <<"monthly", "seasonal", "annual">>

\* ------------------------------------------------------------------------
\* C20
\* ------------------------------------------------------------------------

\* The aggregates of a count, maximum or minimum file have been generated
AggregatesMade == var_type \in AggregatedCategories /\ aggregations # <<>>

CombineCalls == {k \in 1..Len(cdo_log) : IsCombineCall(cdo_log[k])}

\* The resolution a combining call gives
CombinedResolution(k) ==
    CHOOSE r \in OutputResolutions : CombinePrefix[r] = cdo_log[k].op[1]

NextFiner == [monthly |-> "daily", seasonal |-> "monthly", yearly |-> "seasonal"]

CoarsestRequested ==
    CHOOSE r \in Producible : \A q \in Producible : ~Coarser(q, r)

\* C20 as stated: for count, maximum and minimum files, intermediate
\* datasets are materialized at every resolution between native and the
\* coarsest requested resolution, and each is produced from the dataset of
\* the next-finer level (monthly from daily, seasonal from monthly, yearly
\* from seasonal) with the category's combining statistic.
C20_IntermediatesChainedUpToRequest ==
    (AggregatesMade /\ Producible # {}) =>
        /\ {CombinedResolution(k) : k \in CombineCalls}
               = {r \in OutputResolutions :
                     Coarser(r, native) /\ ~Coarser(r, CoarsestRequested)}
        /\ \A k \in CombineCalls :
              /\ cdo_log[k].op[2] = CategoryOperator[var_type]
              /\ tmp[cdo_log[k].input[1]].time_resolution
                     = NextFiner[CombinedResolution(k)]

\* C20 as the code has it: for count, maximum and minimum files, one
\* intermediate dataset is materialized at every output resolution strictly
\* coarser than native, whatever is requested, and each is produced by one
\* call of the category's combining statistic on the temporal subset of the
\* native data.
C20_IntermediatesAllFromTemporalSubset ==
    AggregatesMade =>
        /\ {CombinedResolution(k) : k \in CombineCalls}
               = {r \in OutputResolutions : Coarser(r, native)}
        /\ \A k \in CombineCalls :
              /\ cdo_log[k].op[2] = CategoryOperator[var_type]
              /\ cdo_log[k].input = <<temporal_subset>>
              /\ tmp[cdo_log[k].input[1]].time_resolution = native
              /\ \A j \in CombineCalls :
                     CombinedResolution(j) = CombinedResolution(k) => j = k

\* A daily maximum file asked for monthly only: monthly, seasonal and yearly
\* maxima were all made from the daily subset
C20_Witness ==
    /\ pc = "done"
    /\ var_type = "maximum" /\ native = "daily"
    /\ Requested = {"monthly"}
    /\ Cardinality(CombineCalls) = 3
    /\ \A k \in CombineCalls : cdo_log[k].input = <<temporal_subset>>

\* ------------------------------------------------------------------------
\* C16: The decompose_flow_vectors script runs the source check before the
\* variable check: it exits with status 1 when the source lacks the lat or
\* the lon dimension or has no variable on the lat/lon grid whose values all
\* lie in 1..9, whatever variable was named; otherwise it exits with status 2
\* when the named variable is absent, is not on the lat/lon grid, or has a
\* value outside 1..9; and only when both checks pass is an output file
\* written.
\* ------------------------------------------------------------------------

OnGrid(source, v) ==
    {"lat", "lon"} \subseteq source.variables[v].dimensions

AllDirections(source, v) ==
    \A i \in 1..Len(source.variables[v].values) :
        source.variables[v].values[i] \in 1..9

SourceUsable ==
    /\ {"lat", "lon"} \subseteq flow_source.dimensions
    /\ \E v \in DOMAIN flow_source.variables :
          OnGrid(flow_source, v) /\ AllDirections(flow_source, v)

VariableUsable ==
    /\ flow_variable \in DOMAIN flow_source.variables
    /\ OnGrid(flow_source, flow_variable)
    /\ AllDirections(flow_source, flow_variable)

FlowEnded == flow_pc \in {"exit_0", "exit_1", "exit_2", "traceback"}

\* The exit status of the script: an uncaught exception gives status 1
exit_status ==
    CASE flow_pc = "exit_0" -> 0
      [] flow_pc \in {"exit_1", "traceback"} -> 1
      [] flow_pc = "exit_2" -> 2

C16_SourceCheckedBeforeVariable ==
    /\ FlowEnded =>
          /\ ~SourceUsable => exit_status = 1
          /\ (flow_pc = "exit_1") = ~SourceUsable
          /\ (exit_status = 2) = (SourceUsable /\ ~VariableUsable)
          /\ (flow_pc \in {"exit_0", "traceback"}) = (SourceUsable /\ VariableUsable)
    /\ (flow_dest # <<>>) = (flow_pc \in {"exit_0", "traceback"})
    /\ flow_dest # <<>> => SourceUsable /\ VariableUsable

\* Both checks passed and the vector components are written
BothChecksPassedAndWritten ==
    /\ flow_pc = "exit_0"
    /\ DOMAIN flow_dest[1] = {"eastward", "northward"}

\* Both checks passed and the source has no variable lon: the file is
\* created and the script ends in the traceback of a KeyError
BothChecksPassedAndKeyError ==
    /\ flow_pc = "traceback"
    /\ "lon" \notin DOMAIN flow_source.variables
    /\ flow_dest = <<EmptyDict>>

\* Status 1 although the named variable is absent, status 2 for a variable
\* off the grid of a usable source: here the first
C16_Witness ==
    /\ flow_pc = "exit_1"
    /\ {"lat", "lon"} \subseteq flow_source.dimensions
    /\ flow_variable \notin DOMAIN flow_source.variables
    /\ \E v \in DOMAIN flow_source.variables :
          OnGrid(flow_source, v) /\ ~AllDirections(flow_source, v)

\* ------------------------------------------------------------------------
\* C17: renaming a variable through process_updates
\* ------------------------------------------------------------------------

\* The entry process_updates took last
LastEntry == updates[update_index]

\* The name a string gives in the dataset as the entry found it: its name,
\* or when the string is an expression the string it quotes or what its
\* identifier stands for ("" when that is nothing)
NameGiven(string) ==
    LET parts == {string[i] : i \in DOMAIN string}
        word == CHOOSE w \in parts : w \notin {"<-", "=", " ", "'"}
        vs == DOMAIN dataset_before.variables
    IN  IF "=" \notin parts \/ "'" \in parts THEN word
        ELSE IF word = "dependent_varname"
        THEN (IF "newvar" \in vs THEN "newvar" ELSE IF "var1" \in vs THEN "var1"
              ELSE IF "var2" \in vs THEN "var2" ELSE "")
        ELSE IF word = "variable_name" THEN "var2"
        ELSE ""

\* The last entry is a variable rename entry, new name: '<-old name'
RenameEntryTaken ==
    /\ update_index > 0
    /\ LastEntry.update[1] = "<-"

NewName == NameGiven(LastEntry.key)
OldName == NameGiven(LastEntry.update)

Renamable ==
    /\ OldName \in DOMAIN dataset_before.variables
    /\ NewName \notin DOMAIN dataset_before.variables

\* The dataset has the variables it had, but for the old name's variable,
\* which is now under the new name
Renamed ==
    /\ DOMAIN dataset.variables =
          (DOMAIN dataset_before.variables \ {OldName}) \union {NewName}
    /\ dataset.variables[NewName] = dataset_before.variables[OldName]
    /\ \A n \in DOMAIN dataset.variables \ {NewName} :
          dataset.variables[n] = dataset_before.variables[n]

\* C17: when process_updates has taken a variable rename entry, new name:
\* '<-old name', the variables of the dataset differ from those the entry
\* found only if the old name existed and the new name did not, and then the
\* old name's variable is under the new name and the others are as they
\* were; in every other case the variables are unchanged; and no error is
\* raised.
C17_RenamesOnlyOldExistingToNewAbsent ==
    RenameEntryTaken =>
        /\ update_error = "none"
        /\ dataset.variables # dataset_before.variables => Renamable /\ Renamed
        /\ ~Renamable => dataset.variables = dataset_before.variables

\* A rename entry whose new name is the expression 'newvar' met a dataset
\* with no dependent variable: nothing is there to rename, and IndexError
\* left process_updates
C17_RaisesWithoutDependentVariable ==
    /\ RenameEntryTaken
    /\ LastEntry.key = <<"=", "'", "newvar", "'">>
    /\ LastEntry.update = <<"<-", "var1">>
    /\ DOMAIN dataset_before.variables = {}
    /\ update_error = "IndexError"
    /\ dataset = dataset_before

\* With a dependent variable in the dataset the cases go as stated, and the
\* rename happens whenever the old name exists, the new name does not and
\* the new name is not the key global of the global attributes
RenamesWhereDependentVariables ==
    RenameEntryTaken /\ DOMAIN dataset_before.variables # {} =>
        /\ update_error = "none"
        /\ dataset.variables # dataset_before.variables => Renamable /\ Renamed
        /\ Renamable /\ NewName # "global" => Renamed
        /\ ~Renamable => dataset.variables = dataset_before.variables

\* ------------------------------------------------------------------------
\* C18: copy_global_metadata never overwrites
\* ------------------------------------------------------------------------

CopyEnded == copy_pc \notin {"none", "called"}

\* '<prefix>__<name>', or the bare name when no prefix is given
PrefixedName(m) == IF md_prefix = <<>> THEN <<m>> ELSE md_prefix \o <<"__", m>>

DestinationKept ==
    \A n \in DOMAIN dest_before.attributes :
        /\ n \in DOMAIN dest.attributes
        /\ dest.attributes[n] = dest_before.attributes[n]

AbsentAdded ==
    \A m \in DOMAIN md_file :
        PrefixedName(m) \notin DOMAIN dest_before.attributes =>
            /\ PrefixedName(m) \in DOMAIN dest.attributes
            /\ dest.attributes[PrefixedName(m)] = md_file[m]

\* C18: after a call of copy_global_metadata every attribute the
\* destination had before still has the same value, and each attribute of
\* the source whose prefixed name was absent from the destination is there
\* under that prefixed name with the source's value.
C18_NeverOverwritesAndAddsAbsent ==
    CopyEnded => DestinationKept /\ AbsentAdded

\* The destination is a dictionary, as in a dry run, and the source has an
\* attribute it lacks: the call has ended with AttributeError and the
\* attribute is not in the dictionary
C18_DictionaryDestinationRaises ==
    /\ copy_pc = "AttributeError"
    /\ dest_before.kind = "dict"
    /\ "title" \in DOMAIN md_file
    /\ PrefixedName("title") \notin DOMAIN dest_before.attributes
    /\ PrefixedName("title") \notin DOMAIN dest.attributes

\* Into a netCDF file the attributes are copied as stated, and nothing but
\* the absent prefixed names is added
CopiesIntoDataset ==
    CopyEnded /\ dest_before.kind = "Dataset" =>
        /\ copy_pc = "returned"
        /\ DestinationKept
        /\ AbsentAdded
        /\ DOMAIN dest.attributes =
              DOMAIN dest_before.attributes \union
                  {PrefixedName(m) : m \in DOMAIN md_file}

\* ------------------------------------------------------------------------
\* C21: a dataset is written before the step that reads it
\* ------------------------------------------------------------------------

\* The k-th cdo call reads only the input file and files that earlier calls
\* wrote
ReadsOnlyWritten(k) ==
    \A i \in 1..Len(cdo_log[k].input) :
        cdo_log[k].input[i] = 0 \/ cdo_log[k].input[i] \in 1..(k - 1)

\* The resolution a climatological call forms
ClimoResolution(c) ==
    CHOOSE R \in OutputResolutions : ClimoPrefix[R] = c.op[1]

\* The k-th call, a climatological call on a count, maximum or minimum file,
\* reads a dataset of its own resolution: the temporal subset, or the output
\* of an earlier call of the combining operator for that resolution
ReadsMaterializedAggregate(k) ==
    LET c == cdo_log[k]
        src == c.input[1]
    IN  /\ src \in 1..(k - 1)
        /\ tmp[src].time_resolution = ClimoResolution(c)
        /\ \/ src = temporal_subset
           \/ /\ cdo_log[src].output = src
              /\ IsCombineCall(cdo_log[src])
              /\ cdo_log[src].op[1] = CombinePrefix[ClimoResolution(c)]

\* C21: the cdo calls are issued one at a time, the k-th writing the k-th
\* temporary file; every call reads only the input file and files written
\* by earlier calls; in a count, maximum or minimum file every climatological
\* call for a resolution reads the dataset of that resolution, made by an
\* earlier call of the combining operator (or the temporal subset at the
\* native resolution); and the loop over aggregations starts only when every
\* dataset of aggregations is written.
C21_AggregateWrittenBeforeRead ==
    /\ Len(cdo_log) = Len(tmp)
    /\ \A k \in 1..Len(cdo_log) :
          /\ cdo_log[k].output = k
          /\ ReadsOnlyWritten(k)
          /\ (var_type \in AggregatedCategories /\ IsClimoCall(cdo_log[k])) =>
                ReadsMaterializedAggregate(k)
    /\ pc = "climo_aggregates" =>
          \A a \in 1..Len(aggregations) : aggregations[a].data \in 1..Len(tmp)

\* the climatologies of a monthly maximum file are formed, the seasonal and
\* the yearly one from the outputs of seasmax and yearmax
C21_Witness ==
    /\ var_type = "maximum" /\ native = "monthly"
    /\ pc = "concat"
    /\ Len(climo_files) = 3
    /\ \E i, j \in 1..Len(climo_files) :
          /\ cdo_log[cdo_log[climo_files[i]].input[1]].op = <<"seas", "max">>
          /\ cdo_log[cdo_log[climo_files[j]].input[1]].op = <<"year", "max">>

\* ------------------------------------------------------------------------
\* C22: the plan is a function of the request
\* ------------------------------------------------------------------------

\* The climatological operators of the cdo calls made, in the order of the
\* calls
ClimoOpsIssued ==
    LET calls == SelectSeq(cdo_log, IsClimoCall)
    IN  [k \in 1..Len(calls) |-> calls[k].op]

\* The climatological operators create_climo_files applies, in order, when
\* the requested collection iterates as req
PlanOf(req) ==
    IF var_type \in AggregatedCategories
    THEN LET entries == generate_aggregates(native, var_type)
         IN  Flatten([a \in 1..Len(entries) |->
                 climo_outputs(entries[a].res, operation,
                               aggregate_argument(var_type), req).ops])
    ELSE climo_outputs(native, operation, aggregate_argument(var_type), req).ops

\* C22: once the climatologies are formed, the ordered list of
\* climatological operations that was applied is the one planned for the
\* file's category, native resolution, operation and requested resolutions,
\* and it is the same list whatever the order in which the collection of
\* requested resolutions iterates.
C22_PlanIndependentOfIterationOrder ==
    pc \in AfterClimo =>
        /\ ClimoOpsIssued = PlanOf(output_resolutions)
        /\ \A req \in Orderings(Requested) : PlanOf(req) = ClimoOpsIssued

\* A daily point file asked for {monthly, yearly}: the collection iterated
\* yearly first and the operations are tim, ymon; iterating monthly first
\* the same request gives ymon, tim
C22_OrderFollowsIteration ==
    /\ var_type = "point" /\ native = "daily" /\ operation = "mean"
    /\ pc = "concat"
    /\ output_resolutions = <<"yearly", "monthly">>
    /\ ClimoOpsIssued = <<<<"tim", "mean">>, <<"ymon", "mean">>>>
    /\ PlanOf(<<"monthly", "yearly">>) = <<<<"ymon", "mean">>, <<"tim", "mean">>>>

\* In a count, maximum or minimum file the list follows generate_aggregates'
\* own order and is the same for every iteration order
AggregatedPlanIndependentOfIterationOrder ==
    (pc \in AfterClimo /\ var_type \in AggregatedCategories) =>
        /\ ClimoOpsIssued = PlanOf(output_resolutions)
        /\ \A req \in Orderings(Requested) : PlanOf(req) = ClimoOpsIssued

\* ------------------------------------------------------------------------
\* C23: the precedence of guess_id_variable
\* ------------------------------------------------------------------------

\* The variables with no dimension but the instance dimension and text
\* dimensions
InstanceVariables ==
    {nc[i].name : i \in {j \in 1..Len(nc) :
        Range(nc[j].dimensions) \subseteq {instance_dim, "nc_chars"}}}

RoleOf(name) == (CHOOSE v \in Range(nc) : v.name = name).cf_role

TimeseriesIds == {n \in InstanceVariables : RoleOf(n) = "timeseries_id"}
OtherRoles == {n \in InstanceVariables : RoleOf(n) \notin {"", "timeseries_id"}}

Returns(name) == guess_pc = "returned" /\ id_var = name
Raises == guess_pc = "Exception"

\* C23 as stated: a single instance variable with cf_role timeseries_id is
\* returned; else an instance variable with another cf_role, or several
\* with timeseries_id, raise; else the unique instance variable is returned
\* and zero or several raise.
C23_TimeseriesIdFirst ==
    guess_pc \notin {"none", "called"} =>
        IF Cardinality(TimeseriesIds) = 1
        THEN \E n \in TimeseriesIds : Returns(n)
        ELSE IF OtherRoles # {} \/ Cardinality(TimeseriesIds) >= 2
        THEN Raises
        ELSE IF Cardinality(InstanceVariables) = 1
        THEN \E n \in InstanceVariables : Returns(n)
        ELSE Raises

\* C23, amended: an instance variable with a cf_role other than
\* timeseries_id raises, also when another one carries timeseries_id; else
\* a single instance variable with timeseries_id is returned and several
\* raise; else the unique instance variable is returned and zero or several
\* raise.
C23_OtherRoleFirst ==
    guess_pc \notin {"none", "called"} =>
        IF OtherRoles # {}
        THEN Raises
        ELSE IF Cardinality(TimeseriesIds) = 1
        THEN \E n \in TimeseriesIds : Returns(n)
        ELSE IF Cardinality(TimeseriesIds) >= 2
        THEN Raises
        ELSE IF Cardinality(InstanceVariables) = 1
        THEN \E n \in InstanceVariables : Returns(n)
        ELSE Raises

\* outlet_number carries timeseries_id, outlet_name carries profile_id, both
\* are instance variables: the call raised
C23_Witness ==
    /\ Raises
    /\ TimeseriesIds = {"outlet_number"}
    /\ OtherRoles = {"outlet_name"}

\* ------------------------------------------------------------------------
\* C24: matching_temperature_units
\* ------------------------------------------------------------------------

SameUnits(u, v) ==
    \/ {u, v} \subseteq {"K", "kelvin"}
    \/ {u, v} \subseteq {"degC", "celsius"}

UnitsMatched == prsn_pc \notin {"none", "units"}

\* A temperature in hundredths of a degree, from tasmax's units to tasmin's
Converted(x) ==
    IF SameUnits(tasmax_read.units, tasmin.units) THEN x
    ELSE IF tasmin.units \in {"K", "kelvin"} THEN x + 27315 ELSE x - 27315

\* C24: after matching_temperature_units, tasmax is what it was when the
\* units of tasmin and tasmax are the same; when they differ no exception
\* was raised and tasmax is an array of the same shape holding each value of
\* tasmax converted to tasmin's units.
C24_TasmaxInTasminUnits ==
    UnitsMatched =>
        IF SameUnits(tasmin.units, tasmax_read.units)
        THEN prsn_pc # "Exception" /\ tasmax = tasmax_read
        ELSE /\ prsn_pc # "Exception"
             /\ Len(tasmax.data) = Len(tasmax_read.data)
             /\ \A i \in 1..Len(tasmax_read.data) :
                   tasmax.data[i] = Converted(tasmax_read.data[i])

\* tasmin in K and three values of tasmax in degC: the call raised and
\* tasmax is still the variable as read
C24_DifferingUnitsRaise ==
    /\ prsn_pc = "Exception"
    /\ tasmax = tasmax_read
    /\ tasmin.units = "K"
    /\ tasmax_read.units = "degC"
    /\ Len(tasmax_read.data) = 3

\* With the same units, also written differently (K and kelvin), tasmax is
\* returned as it was and nothing is raised
SameUnitsReturnTasmax ==
    (UnitsMatched /\ SameUnits(tasmin.units, tasmax_read.units)) =>
        prsn_pc # "Exception" /\ tasmax = tasmax_read

\* ------------------------------------------------------------------------
\* C29: chunk_generator tiles [0, max_len)
\* ------------------------------------------------------------------------

TimeLength == Len(tasmin.data)

\* The slices written so far are ranges of 1 to 100 indices, the first from
\* 0, each next one from the end of the one before, none beyond max_len
WritesTileSoFar ==
    \A k \in 1..Len(prsn_writes) :
        /\ prsn_writes[k][1] < prsn_writes[k][2]
        /\ prsn_writes[k][2] - prsn_writes[k][1] <= 100
        /\ prsn_writes[k][1] = IF k = 1 THEN 0 ELSE prsn_writes[k - 1][2]
        /\ prsn_writes[k][2] <= TimeLength

\* Every time index is in exactly one slice written
EveryIndexOnce ==
    \A i \in 0..(TimeLength - 1) :
        Cardinality({k \in 1..Len(prsn_writes) :
            prsn_writes[k][1] <= i /\ i < prsn_writes[k][2]}) = 1

\* All the ranges a generator yields from its state g on
RECURSIVE chunks_from(_)
chunks_from(g) ==
    IF next_chunk(g).stop THEN <<>>
    ELSE <<next_chunk(g).chunk>> \o chunks_from(next_chunk(g).gen)

\* chunk_generator(max_len) ends and its ranges tile [0, max_len): each has
\* start < end and at most 100 indices, the first starts at 0, each next one
\* at the end of the one before, the last ends at max_len, and there is none
\* for max_len 0
GeneratorTiles ==
    LET yielded == chunks_from(chunk_generator(TimeLength))
    IN  /\ \A k \in 1..Len(yielded) :
              /\ yielded[k][1] < yielded[k][2]
              /\ yielded[k][2] - yielded[k][1] <= 100
              /\ yielded[k][1] = IF k = 1 THEN 0 ELSE yielded[k - 1][2]
        /\ TimeLength = 0 => yielded = <<>>
        /\ TimeLength > 0 => yielded[Len(yielded)][2] = TimeLength

ChunksTile ==
    /\ prsn_pc \in {"loop", "done"} => WritesTileSoFar
    /\ prsn_pc = "done" =>
          /\ EveryIndexOnce
          /\ TimeLength = 0 => prsn_writes = <<>>
          /\ TimeLength > 0 => prsn_writes[Len(prsn_writes)][2] = TimeLength

\* C29: in process_to_prsn the ranges chunk_generator yields are half-open
\* ranges of at most 100 indices with start < end, the first from 0, each
\* next from the end of the one before; the loop ends, and then the last
\* range ends at max_len, nothing was yielded for max_len 0, and every time
\* index was written exactly once.
C29_ChunksTileAndLoopEnds ==
    /\ []GeneratorTiles
    /\ []ChunksTile
    /\ [](prsn_pc = "loop" => <>(prsn_pc = "done"))

\* 250 time values, for which the generator yields [0, 100), [100, 200) and
\* [200, 250): the comparison raised in the first turn of the loop and
\* process_to_prsn wrote nothing
C29_ComparisonRaises ==
    /\ prsn_pc = "ValueError"
    /\ TimeLength = 250
    /\ chunks_from(chunk_generator(TimeLength))
           = <<<<0, 100>>, <<100, 200>>, <<200, 250>>>>
    /\ chunks = [size |-> 100, start |-> 0, end |-> 100, max_len |-> 250]
    /\ prsn_writes = <<>>

\* 250 time values with a pint that compares the magnitudes: every turn of
\* the loop wrote its slice
AllChunksWritten ==
    /\ prsn_pc = "done"
    /\ TimeLength = 250
    /\ prsn_writes = <<<<0, 100>>, <<100, 200>>, <<200, 250>>>>

\* The comparison raised in the third turn: [200, 250) is not written
ThirdComparisonRaises ==
    /\ prsn_pc = "DimensionalityError"
    /\ TimeLength = 250
    /\ chunks = [size |-> 100, start |-> 200, end |-> 250, max_len |-> 250]
    /\ prsn_writes = <<<<0, 100>>, <<100, 200>>>>

\* ------------------------------------------------------------------------
\* C25: the times and bounds of generate_climo_time_var
\* ------------------------------------------------------------------------

Has(interval) == IF interval \in time_types THEN 1 ELSE 0

ExpectedLength == 12 * Has("monthly") + 4 * Has("seasonal") + Has("annual")

\* The month and day the k-th time value should have: the months 1..12 on
\* day 15, then months 1, 4, 7, 10 on day 16, then July 2
ExpectedMonthDay(k) ==
    LET m == 12 * Has("monthly")
        s == 4 * Has("seasonal")
    IN  IF k <= m THEN <<k, 15>>
        ELSE IF k <= m + s THEN <<3 * (k - m) - 2, 16>>
        ELSE <<7, 2>>

TimesAsStated ==
    /\ Len(times) = ExpectedLength
    /\ Len(climo_bounds) = ExpectedLength
    /\ \A k \in 1..Len(times) :
          /\ <<times[k][2], times[k][3]>> = ExpectedMonthDay(k)
          /\ times[k][1] = times[1][1]

\* C25: for every set of intervals, the times and the climatology bounds
\* returned have the length 12*[monthly] + 4*[seasonal] + 1*[annual], the
\* times are the months 1..12 on day 15, then months 1, 4, 7, 10 on day 16,
\* then July 2, all in one year, and the length is a key of the table
\* num_times_to_interval_set.
C25_TimesOrderedAndLengthInTable ==
    times_pc = "returned" =>
        /\ TimesAsStated
        /\ Len(times) \in DOMAIN num_times_to_interval_set

\* monthly and annual: 13 time values, as stated, and 13 is no key of the
\* table
C25_ThirteenNotInTable ==
    /\ times_pc = "returned"
    /\ time_types = {"monthly", "annual"}
    /\ TimesAsStated
    /\ Len(times) = 13
    /\ 13 \notin DOMAIN num_times_to_interval_set

\* The lengths, the order and the year are as stated for every set; the
\* length is a key of the table exactly for the five sets the table lists
TimesAsStatedAndTableOfFive ==
    times_pc = "returned" =>
        /\ TimesAsStated
        /\ Len(times) \in DOMAIN num_times_to_interval_set <=>
              time_types \in {{"monthly"}, {"seasonal"}, {"annual"},
                              {"seasonal", "annual"},
                              {"monthly", "seasonal", "annual"}}

\* ------------------------------------------------------------------------
\* C26: the warning about the selected output resolutions
\* ------------------------------------------------------------------------

\* C26: create_climo_files issues the "None of the selected output
\* resolutions" warning only in runs that produce no output: a run that has
\* formed at least one climatology has issued no such warning.
C26_WarningOnlyWithoutOutput ==
    (pc \in AfterClimo /\ climo_files # <<>>) => warnings = 0

\* A run of an aggregated category that returns output files and has warned
C26_WarnsAndReturnsFiles ==
    /\ pc = "done"
    /\ var_type \in AggregatedCategories
    /\ output_file_paths # <<>>
    /\ warnings >= 1

\* The single call of climo_outputs made for a point or a duration file warns
\* only when it yields no climatology
SingleCallWarnsOnlyWithoutOutput ==
    (pc \in AfterClimo /\ var_type \in {"point", "duration"} /\ climo_files # <<>>)
        => warnings = 0

\* ------------------------------------------------------------------------
\* C27: modify_attribute with a rename value
\* ------------------------------------------------------------------------

\* The attribute update handled last
LastElement == attr_updates[attr_index]

\* The update handled last is a rename "<-old" with a plain name old
RenameHandled ==
    /\ attr_index > 0
    /\ is_rename(LastElement.value)
    /\ ~is_expression(strip_rename_prefix(LastElement.value))

OldAttribute == strip_rename_prefix(LastElement.value)[1]

\* C27: after modify_attribute with a rename value "<-old" on a target that
\* has attribute old, the target has attribute name with old's former value
\* and no distinct attribute old; when name equals old the attribute is still
\* there with its value; when old is absent the target is unchanged.
C27_RenameKeepsValueUnderName ==
    RenameHandled =>
        LET before == attr_before.attributes
            after == attr_dataset.attributes
            name == LastElement.name
        IN  IF OldAttribute \in DOMAIN before
            THEN /\ name \in DOMAIN after
                 /\ after[name] = before[OldAttribute]
                 /\ name # OldAttribute => OldAttribute \notin DOMAIN after
            ELSE after = before

\* An attribute renamed to its own name is gone
C27_RenameToItselfDeletes ==
    /\ RenameHandled
    /\ LastElement.name = OldAttribute
    /\ OldAttribute \in DOMAIN attr_before.attributes
    /\ OldAttribute \notin DOMAIN attr_dataset.attributes
    /\ attr_error = "none"

\* With distinct names the rename is as stated, and no rename of a plain name
\* raises
RenameToAnotherNameKeepsValue ==
    RenameHandled =>
        LET before == attr_before.attributes
            after == attr_dataset.attributes
            name == LastElement.name
        IN  /\ attr_error = "none"
            /\ IF OldAttribute \notin DOMAIN before THEN after = before
               ELSE IF name = OldAttribute
               THEN after = delattr(before, name)
               ELSE /\ after[name] = before[OldAttribute]
                    /\ DOMAIN after = (DOMAIN before \ {OldAttribute}) \union {name}
                    /\ \A n \in DOMAIN after \ {name} : after[n] = before[n]

\* ------------------------------------------------------------------------
\* C28: an expression that raises
\* ------------------------------------------------------------------------

\* The update handled last is an "=expression" whose evaluation raised
ExpressionRaised ==
    /\ attr_index > 0
    /\ is_expression(LastElement.value)
    /\ evaluate_expression(attr_before,
           strip_expression_prefix(LastElement.value)).raised # "none"

\* The update before the last one is an "=expression" whose evaluation
\* raised (it left the dataset as it was)
PreviousExpressionRaised ==
    /\ attr_index > 1
    /\ is_expression(attr_updates[attr_index - 1].value)
    /\ evaluate_expression(attr_before,
           strip_expression_prefix(attr_updates[attr_index - 1].value)).raised
          # "none"

\* C28: when the evaluation of an "=expression" attribute value raises, the
\* target's attributes are as before (the attribute keeps its value or stays
\* absent), no exception leaves process_updates, and the next update of the
\* specification is applied to the unchanged target.
C28_FailedExpressionSkipped ==
    /\ ExpressionRaised =>
          /\ attr_dataset = attr_before
          /\ attr_error = "none"
    /\ PreviousExpressionRaised =>
          attr_dataset.attributes =
              modify_attribute(attr_before, attr_before.attributes,
                               LastElement.name, LastElement.value).target

\* A second update applied after the expression of the first one raised
C28_Witness ==
    /\ attr_index = 2
    /\ is_expression(attr_updates[1].value)
    /\ attr_updates[2].value = <<"x">>
    /\ attr_updates[2].name \notin DOMAIN attr_before.attributes
    /\ attr_dataset.attributes[attr_updates[2].name] = <<"x">>
    /\ attr_updates[1].name \notin DOMAIN attr_dataset.attributes
    /\ attr_error = "none"

\* ------------------------------------------------------------------------
\* C30: a path that input_check rejects
\* ------------------------------------------------------------------------

\* input_check yields (None, empty) for the path taken last
LastPathRejected ==
    /\ file_index > 0
    /\ LET checked == input_check(filepaths[file_index])
       IN  checked.input_file = <<>> /\ checked.periods = {}

\* input_check yields (None, empty) exactly for the paths that CFDataset
\* cannot open and for the files without a requested period
RejectsUnreadableAndWithoutPeriods ==
    \A i \in 1..Len(filepaths) :
        LET checked == input_check(filepaths[i])
        IN  (~filepaths[i].is_netcdf \/ filepaths[i].climo_periods = 0)
                <=> (checked.input_file = <<>> /\ checked.periods = {})

\* C30: when the input path is no readable netCDF file or holds none of the
\* requested periods, input_check yields (None, empty); generate_climos then
\* makes no output file and raises nothing, and dry_run_handler likewise ends
\* without raising and without making any netCDF output.
C30_RejectedPathHandledQuietly ==
    /\ RejectsUnreadableAndWithoutPeriods
    /\ LastPathRejected =>
          /\ script_pc \notin {"create", "traceback"}
          /\ periods = <<>>
    /\ dry_run => outdir = {} /\ pc = "none"

\* A dry run on a rejected path ends in the traceback of
\* input_file.dependent_varnames() on None
C30_DryRunRaisesOnRejectedPath ==
    /\ dry_run
    /\ LastPathRejected
    /\ script_pc = "traceback"
    /\ outdir = {}

\* Without --dry-run the claim holds, and no dry run makes any output
RejectedPathSkippedByGenerateClimos ==
    /\ RejectsUnreadableAndWithoutPeriods
    /\ (~dry_run /\ LastPathRejected) =>
          /\ script_pc \in {"periods", "loop", "returned"}
          /\ periods = <<>>
    /\ dry_run => outdir = {} /\ pc = "none"

\* The loop over a file's two periods is at the second one first
SecondPeriodFirst ==
    /\ script_pc = "create"
    /\ periods = <<2, 1>>

\* Files of two periods of one input are in the output directory together
FilesOfTwoPeriods ==
    \E f, g \in outdir :
        /\ f.name.time_range = 1 /\ g.name.time_range = 2
        /\ f.data.is_multi_year /\ g.data.is_multi_year

====
